---------------------------- MODULE Spec2Model ----------------------------
(***************************************************************************)
(* Verification model of the query-understanding core of World.Journey.Ai  *)
(* (world_journey_ai/services/chatbot.py, BaseAIEngine, and app.py).       *)
(*                                                                         *)
(* Specifications in this module:                                          *)
(*   SpecCache  sequential series of _cache_response/_get_cached_response  *)
(*   SpecConc   the same two methods run by several threads, one Python    *)
(*              statement per step, no lock (as in the source)             *)
(*   Spec       build_reply, one request after another on one engine       *)
(*   SpecScore  _calculate_travel_relevance over small texts               *)
(*   SpecNorm   _normalize applied once and twice                          *)
(*   SpecLev    the two Levenshtein functions on pairs of short strings    *)
(*   SpecAlias  _build_province_aliases and _resolve_province              *)
(*   SpecParse  _parse_ai_response_enhanced on generation output           *)
(***************************************************************************)
EXTENDS Integers, Sequences, FiniteSets, TLC

VARIABLES
    response_cache,    \* self._response_cache: insertion-ordered dict, <<key, payload>> pairs
    cache_timestamps,  \* self._cache_timestamps: insertion-ordered dict, <<key, time>> pairs
    now,               \* the value time.time() returns
    last_put,          \* history: one key (any) and the most recent _cache_response call for it
    evicted,           \* history: that key's entry was removed by the capacity rule since that call
    put_log,           \* history: keys of the _cache_response calls since construction, in order
    only_puts,         \* history: every cache operation since construction was a put of a new key
    cache_op,          \* the cache operation that just ran and what it returned
    tpc,               \* SpecConc: per thread, the statement it is at
    tloc,              \* SpecConc: per thread, the locals of the running method
    pc,                \* Spec: position inside build_reply
    req,               \* Spec: the request being handled and what it did so far
    ai_mode,           \* self._ai_mode
    openai_client,     \* self._openai_client is set
    sc,                \* SpecScore: text, keyword list, destination names and the score
    nm,                \* SpecNorm: input and the results of _normalize
    fn                 \* SpecLev, SpecAlias, SpecParse: a call's arguments and result

vars == <<response_cache, cache_timestamps, now, last_put, evicted, put_log,
          only_puts, cache_op, tpc, tloc, pc, req, ai_mode, openai_client, sc, nm, fn>>

cacheVars == <<response_cache, cache_timestamps, now, last_put, evicted,
               put_log, only_puts, cache_op>>
concVars  == <<tpc, tloc>>
replyVars == <<pc, req, ai_mode, openai_client>>

-----------------------------------------------------------------------------
(* Bounds of the model.  cache_max_age and cache_max_size stand for the    *)
(* source's 3600 seconds and 1000 entries, scaled down; the code only      *)
(* compares against them.                                                  *)

cache_max_age == 1
cache_max_size == 2
MaxTime == 2
ConcMaxTime == 2
MaxCalls == 2
NumQueries == 3
NumThreads == 2

\* An optional value: None is the empty tuple, a present value x is <<x>>.
None == <<>>
Some(x) == <<x>>

Range(s) == {s[i] : i \in DOMAIN s}

Min2(a, b) == IF a <= b THEN a ELSE b

-----------------------------------------------------------------------------
(* A Python dict: a sequence of <<key, value>> pairs with distinct keys,   *)
(* in insertion order.                                                     *)

DictKeys(d) == {d[i][1] : i \in DOMAIN d}

DictHas(d, k) == \E i \in DOMAIN d : d[i][1] = k

DictGet(d, k) == d[CHOOSE i \in DOMAIN d : d[i][1] = k][2]

DictSet(d, k, v) ==
    IF DictHas(d, k)
    THEN [i \in DOMAIN d |-> IF d[i][1] = k THEN <<k, v>> ELSE d[i]]
    ELSE Append(d, <<k, v>>)

DictDel(d, k) == SelectSeq(d, LAMBDA e : e[1] # k)

DictLen(d) == Len(d)

-----------------------------------------------------------------------------
(* Cache keys and payloads.                                                *)

Langs == {"th", "en"}
Modes == {"chat", "guide"}
QueryNorms == 1..NumQueries

\* _get_cache_key: md5 of "<normalized query>_<lang>_<mode>".  lang and mode
\* contain no underscore, so the string determines the triple; the digest is
\* represented by the triple it is computed from (collisions of MD5 aside).
get_cache_key(qnorm, lang, mode) == <<qnorm, lang, mode>>

\* A cached payload: text is "a1", "a2" (two answers) or "blank" (a text of
\* whitespace only); html is "html" or "none" (None).
Payload(text, html, conf) == [text |-> text, html |-> html, confidence |-> conf]


\* The keys and payloads the cache-level specifications draw from.
PutKeys == {get_cache_key(q, "th", "chat") : q \in QueryNorms}

PutPayloads == {Payload("a1", "none", "High"), Payload("a2", "html", "Medium")}

-----------------------------------------------------------------------------
(* _get_cached_response and _cache_response, run without interruption.     *)

\* The age test of _get_cached_response, with the off-by-one a slip would give.
CacheFreshInclusive(ts, k, t) == t - DictGet(ts, k) <= cache_max_age

\* current_time - self._cache_timestamps[cache_key] < self._cache_max_age
CacheFresh(ts, k, t) == t - DictGet(ts, k) < cache_max_age

\* The capacity test of _cache_response, evicting one entry too late.
NeedsEvictionLate(rc) == DictLen(rc) > cache_max_size

\* len(self._response_cache) >= self._cache_max_size
NeedsEviction(rc) == DictLen(rc) >= cache_max_size

\* The key with the greatest timestamp: what evicting the newest would pick.
NewestKey(ts) ==
    LET i == CHOOSE i \in DOMAIN ts : \A j \in DOMAIN ts : ts[i][2] >= ts[j][2]
    IN  ts[i][1]

\* min(self._cache_timestamps.keys(), key=lambda k: self._cache_timestamps[k]):
\* the first key, in the dict's order, whose timestamp is minimal.
OldestKey(ts) ==
    LET i == CHOOSE i \in DOMAIN ts :
                 /\ \A j \in DOMAIN ts : ts[i][2] <= ts[j][2]
                 /\ \A j \in 1..(i - 1) : ts[j][2] > ts[i][2]
    IN  ts[i][1]

\* A get that returns None for an expired entry and leaves it in place.
GetKeepsExpired(rc, ts, k, t) ==
    IF DictHas(rc, k) /\ DictHas(ts, k) /\ CacheFresh(ts, k, t)
    THEN [rc |-> rc, ts |-> ts, ret |-> Some(DictGet(rc, k)), err |-> FALSE]
    ELSE [rc |-> rc, ts |-> ts, ret |-> None, err |-> FALSE]

\* _get_cached_response(cache_key) at time t: the two dicts afterwards, the
\* value returned and whether a del raised KeyError.
get_cached_response(rc, ts, k, t) ==
    IF DictHas(rc, k) /\ DictHas(ts, k) /\ CacheFresh(ts, k, t)
    THEN [rc |-> rc, ts |-> ts, ret |-> Some(DictGet(rc, k)), err |-> FALSE]
    ELSE IF DictHas(rc, k)
         THEN [rc |-> DictDel(rc, k), ts |-> DictDel(ts, k), ret |-> None,
               err |-> ~DictHas(ts, k)]
         ELSE [rc |-> rc, ts |-> ts, ret |-> None, err |-> FALSE]

\* _cache_response(cache_key, response) at time t: the two dicts afterwards,
\* the key evicted (or None) and whether min or a del raised.
cache_response(rc, ts, k, resp, t) ==
    IF NeedsEviction(rc)
    THEN IF ts = <<>> \/ ~DictHas(rc, OldestKey(ts))
         THEN [rc |-> rc, ts |-> ts, evictedKey |-> None, err |-> TRUE]
         ELSE LET oldest == OldestKey(ts) IN
              [rc |-> DictSet(DictDel(rc, oldest), k, resp),
               ts |-> DictSet(DictDel(ts, oldest), k, t),
               evictedKey |-> Some(oldest), err |-> FALSE]
    ELSE [rc |-> DictSet(rc, k, resp), ts |-> DictSet(ts, k, t),
          evictedKey |-> None, err |-> FALSE]

NoOp == [kind |-> "none", key |-> None, ret |-> None, err |-> FALSE]

\* BaseAIEngine.__init__: both dicts empty.  The history follows one key,
\* any of keys.
CacheInit(keys) ==
    /\ response_cache = <<>>
    /\ cache_timestamps = <<>>
    /\ now = 0
    /\ last_put \in {[key |-> k, put |-> None] : k \in keys}
    /\ evicted = FALSE
    /\ put_log = <<>>
    /\ only_puts = TRUE
    /\ cache_op = NoOp

\* The history variables after _cache_response(k, resp) evicted ev.
PutHistory(k, resp, ev) ==
    /\ last_put' = IF k = last_put.key
                   THEN [last_put EXCEPT !.put = Some([payload |-> resp, at |-> now])]
                   ELSE last_put
    /\ evicted' = IF k = last_put.key THEN FALSE
                  ELSE (evicted \/ ev = Some(last_put.key))
    /\ put_log' = IF only_puts /\ k \notin Range(put_log)
                  THEN Append(put_log, k) ELSE <<>>
    /\ only_puts' = (only_puts /\ k \notin Range(put_log))

GetHistory ==
    /\ only_puts' = FALSE
    /\ put_log' = <<>>
    /\ UNCHANGED <<last_put, evicted>>

\* The clock advances between (or, in SpecConc and Spec, during) operations.
ClockStep(limit) ==
    /\ now < limit
    /\ now' = now + 1
    /\ cache_op' = NoOp
    /\ UNCHANGED <<response_cache, cache_timestamps, last_put, evicted, put_log,
                   only_puts>>
    /\ UNCHANGED <<concVars, replyVars, sc, nm, fn>>

Tick == ClockStep(MaxTime)

TickConc == ClockStep(ConcMaxTime)

CachePut(k, resp) ==
    LET r == cache_response(response_cache, cache_timestamps, k, resp, now) IN
    /\ response_cache' = r.rc
    /\ cache_timestamps' = r.ts
    /\ cache_op' = [kind |-> "put", key |-> k, ret |-> None, err |-> r.err]
    /\ PutHistory(k, resp, r.evictedKey)
    /\ UNCHANGED <<now, concVars, replyVars, sc, nm, fn>>

CacheGet(k) ==
    LET r == get_cached_response(response_cache, cache_timestamps, k, now) IN
    /\ response_cache' = r.rc
    /\ cache_timestamps' = r.ts
    /\ cache_op' = [kind |-> "get", key |-> k, ret |-> r.ret, err |-> r.err]
    /\ GetHistory
    /\ UNCHANGED <<now, concVars, replyVars, sc, nm, fn>>

-----------------------------------------------------------------------------
(* The same two methods run by several request threads of one engine       *)
(* (_initialize_services builds a single ChatEngine for the whole app).    *)
(* One step is one Python statement or dict operation; a dict operation is *)
(* atomic, nothing else is: the source takes no lock.  The min(...) scan   *)
(* of _cache_response is taken as one step.                                *)

Threads == 1..NumThreads

ConcPayload == Payload("a1", "none", "High")

IdleLocals == [key |-> None, t |-> 0, oldest |-> None, err |-> "none", calls |-> 0]

ConcInit ==
    /\ tpc = [th \in Threads |-> "idle"]
    /\ tloc = [th \in Threads |-> IdleLocals]

Goto(th, label) == tpc' = [tpc EXCEPT ![th] = label]

\* The method returns: the request thread is free again.
Return(th) == Goto(th, "idle") /\ UNCHANGED tloc

\* A statement raises: the exception ends the method and is kept in err.
Raise(th, e) ==
    /\ Goto(th, "idle")
    /\ tloc' = [tloc EXCEPT ![th].err = e]

ConcFrame == UNCHANGED <<now, last_put, evicted, put_log, only_puts, cache_op,
                         replyVars, sc, nm, fn>>

CacheSame == UNCHANGED <<response_cache, cache_timestamps>>

\* A request thread enters _get_cached_response(k): current_time = time.time()
GetEnter(th, k) ==
    /\ tpc[th] = "idle"
    /\ tloc[th].calls < MaxCalls
    /\ Goto(th, "g_in_rc")
    /\ tloc' = [tloc EXCEPT ![th] = [IdleLocals EXCEPT !.key = Some(k), !.t = now,
                                                   !.calls = tloc[th].calls + 1]]
    /\ CacheSame /\ ConcFrame

\* cache_key in self._response_cache
GetInCache(th) ==
    /\ tpc[th] = "g_in_rc"
    /\ Goto(th, IF DictHas(response_cache, tloc[th].key[1]) THEN "g_in_ts" ELSE "g_rm_test")
    /\ UNCHANGED tloc /\ CacheSame /\ ConcFrame

\* cache_key in self._cache_timestamps
GetInTimestamps(th) ==
    /\ tpc[th] = "g_in_ts"
    /\ Goto(th, IF DictHas(cache_timestamps, tloc[th].key[1]) THEN "g_age" ELSE "g_rm_test")
    /\ UNCHANGED tloc /\ CacheSame /\ ConcFrame

\* current_time - self._cache_timestamps[cache_key] < self._cache_max_age
GetAge(th) ==
    /\ tpc[th] = "g_age"
    /\ IF ~DictHas(cache_timestamps, tloc[th].key[1])
       THEN Raise(th, "KeyError")
       ELSE /\ Goto(th, IF CacheFresh(cache_timestamps, tloc[th].key[1], tloc[th].t)
                        THEN "g_ret" ELSE "g_rm_test")
            /\ UNCHANGED tloc
    /\ CacheSame /\ ConcFrame

\* return self._response_cache[cache_key]
GetReturnEntry(th) ==
    /\ tpc[th] = "g_ret"
    /\ IF DictHas(response_cache, tloc[th].key[1])
       THEN Return(th) ELSE Raise(th, "KeyError")
    /\ CacheSame /\ ConcFrame

\* if cache_key in self._response_cache:  ... else return None
GetRemoveTest(th) ==
    /\ tpc[th] = "g_rm_test"
    /\ IF DictHas(response_cache, tloc[th].key[1])
       THEN Goto(th, "g_del_rc") /\ UNCHANGED tloc
       ELSE Return(th)
    /\ CacheSame /\ ConcFrame

\* del self._response_cache[cache_key]
GetDelCache(th) ==
    /\ tpc[th] = "g_del_rc"
    /\ IF DictHas(response_cache, tloc[th].key[1])
       THEN /\ response_cache' = DictDel(response_cache, tloc[th].key[1])
            /\ Goto(th, "g_del_ts") /\ UNCHANGED tloc
       ELSE /\ Raise(th, "KeyError") /\ UNCHANGED response_cache
    /\ UNCHANGED cache_timestamps /\ ConcFrame

\* del self._cache_timestamps[cache_key]; return None
GetDelTimestamp(th) ==
    /\ tpc[th] = "g_del_ts"
    /\ IF DictHas(cache_timestamps, tloc[th].key[1])
       THEN /\ cache_timestamps' = DictDel(cache_timestamps, tloc[th].key[1])
            /\ Return(th)
       ELSE /\ Raise(th, "KeyError") /\ UNCHANGED cache_timestamps
    /\ UNCHANGED response_cache /\ ConcFrame

\* A request thread enters _cache_response(k, resp): current_time = time.time()
PutEnter(th, k) ==
    /\ tpc[th] = "idle"
    /\ tloc[th].calls < MaxCalls
    /\ Goto(th, "p_len")
    /\ tloc' = [tloc EXCEPT ![th] = [IdleLocals EXCEPT !.key = Some(k), !.t = now,
                                                   !.calls = tloc[th].calls + 1]]
    /\ CacheSame /\ ConcFrame

\* if len(self._response_cache) >= self._cache_max_size:
PutLen(th) ==
    /\ tpc[th] = "p_len"
    /\ Goto(th, IF NeedsEviction(response_cache) THEN "p_min" ELSE "p_set_rc")
    /\ UNCHANGED tloc /\ CacheSame /\ ConcFrame

\* oldest_key = min(self._cache_timestamps.keys(), key=...)
PutMin(th) ==
    /\ tpc[th] = "p_min"
    /\ IF cache_timestamps = <<>>
       THEN Raise(th, "ValueError")
       ELSE /\ Goto(th, "p_del_rc")
            /\ tloc' = [tloc EXCEPT ![th].oldest = Some(OldestKey(cache_timestamps))]
    /\ CacheSame /\ ConcFrame

\* del self._response_cache[oldest_key]
PutDelCache(th) ==
    /\ tpc[th] = "p_del_rc"
    /\ IF DictHas(response_cache, tloc[th].oldest[1])
       THEN /\ response_cache' = DictDel(response_cache, tloc[th].oldest[1])
            /\ Goto(th, "p_del_ts") /\ UNCHANGED tloc
       ELSE /\ Raise(th, "KeyError") /\ UNCHANGED response_cache
    /\ UNCHANGED cache_timestamps /\ ConcFrame

\* del self._cache_timestamps[oldest_key]
PutDelTimestamp(th) ==
    /\ tpc[th] = "p_del_ts"
    /\ IF DictHas(cache_timestamps, tloc[th].oldest[1])
       THEN /\ cache_timestamps' = DictDel(cache_timestamps, tloc[th].oldest[1])
            /\ Goto(th, "p_set_rc") /\ UNCHANGED tloc
       ELSE /\ Raise(th, "KeyError") /\ UNCHANGED cache_timestamps
    /\ UNCHANGED response_cache /\ ConcFrame

\* self._response_cache[cache_key] = response.copy()
PutSetCache(th) ==
    /\ tpc[th] = "p_set_rc"
    /\ response_cache' = DictSet(response_cache, tloc[th].key[1], ConcPayload)
    /\ Goto(th, "p_set_ts")
    /\ UNCHANGED <<tloc, cache_timestamps>> /\ ConcFrame

\* self._cache_timestamps[cache_key] = current_time
PutSetTimestamp(th) ==
    /\ tpc[th] = "p_set_ts"
    /\ cache_timestamps' = DictSet(cache_timestamps, tloc[th].key[1], tloc[th].t)
    /\ Return(th)
    /\ UNCHANGED response_cache /\ ConcFrame

-----------------------------------------------------------------------------
(* build_reply: one request after another on one engine.  A request's     *)
(* text is given by what the code looks at: how much surrounding          *)
(* whitespace it has, how long it is once stripped, whether a suspicious  *)
(* or a spam pattern matches.  What later stages compute from the text    *)
(* (matches, language, keys) is drawn when the stage runs.                 *)

\* len(cleaned) > 1000, scaled down.
max_input_length == 1

\* range(max_retries) in _generate_ai_travel_response_enhanced
max_retries == 3

\* Relevance is held in tenths: 0.1, 0.2 and 0.5 of the source are 1, 2, 5;
\* a score term s of the source is the integer 2 * s (halves), so that
\* total_score / max_possible_score in tenths is the number of halves.
very_low_relevance == 1
medium_relevance == 2
high_relevance == 5
max_possible_score == 10

\* The bounds of Spec: the clock, the number of requests in a behaviour and
\* the number of distinct normalized queries.
ReplyMaxTime == 1
MaxRequests == 2
NumReplyQueries == 2

ReplyQueries == 1..NumReplyQueries

\* The three question_patterns of _calculate_travel_relevance.
QuestionPatterns == {"wh_word", "thai_word", "question_mark"}

\* The score without the clamp of min(..., max_possible_score).
RelevanceUnclamped(travel_score, destination_score, question_score) ==
    travel_score + destination_score + question_score

\* total_score = min(travel + destination + question, max_possible_score);
\* relevance = total_score / max_possible_score; return min(relevance, 1.0)
Relevance(travel_score, destination_score, question_score) ==
    Min2(Min2(travel_score + destination_score + question_score, max_possible_score),
         10)

\* The signals _calculate_travel_relevance finds in a text: keyword hits
\* (1.0 each), destination hits (2.0 each), matching patterns (0.5 each).
SignalScore(sig) == Relevance(2 * sig.kw, 4 * sig.dest, Cardinality(sig.patterns))

\* The texts of Spec carry one of these: nothing travel-like, a lone question
\* mark (0.1), a keyword (0.2), a destination with a question mark (0.5), a
\* destination with a keyword (0.6).
Signals ==
    {[kw |-> 0, dest |-> 0, patterns |-> {}],
     [kw |-> 0, dest |-> 0, patterns |-> {"question_mark"}],
     [kw |-> 1, dest |-> 0, patterns |-> {}],
     [kw |-> 0, dest |-> 1, patterns |-> {"question_mark"}],
     [kw |-> 1, dest |-> 1, patterns |-> {}]}

OnlyQuestionMark(sig) == sig.kw = 0 /\ sig.dest = 0 /\ sig.patterns = {"question_mark"}

\* user_text: pad whitespace characters around len other characters.
UserTexts ==
    {t \in [pad : {0, max_input_length}, len : 0..(max_input_length + 1),
            unsafe : BOOLEAN, spam : BOOLEAN] :
        /\ (t.unsafe \/ t.spam) => t.len >= 1
        /\ ~(t.unsafe /\ t.spam)}

RawLen(t) == t.pad + t.len

\* cleaned = user_text.strip()
CleanedLen(t) == t.len

\* The spam_patterns loop, switched off.
SpamIgnored(t) == FALSE

\* for pattern in spam_patterns: if re.search(pattern, cleaned, ...)
SpamMatch(t) == t.spam

\* _validate_and_preprocess_input up to the return of an error; "valid" when
\* it goes on to compute the processed text and the relevance score.
validate_and_preprocess_input(t) ==
    IF CleanedLen(t) = 0 THEN "error_empty"
    ELSE IF CleanedLen(t) > max_input_length THEN "error_too_long"
    ELSE IF t.unsafe THEN "error_unsafe"
    ELSE IF SpamMatch(t) THEN "error_spam"
    ELSE "valid"

ValidationErrors == {"error_empty", "error_too_long", "error_unsafe", "error_spam"}

\* GUIDE_ONLY_MESSAGE if self._ai_mode == "guide" else TRAVEL_ONLY_MESSAGE
ScopeMessage(mode) == IF mode = "guide" THEN "GUIDE_ONLY_MESSAGE" ELSE "TRAVEL_ONLY_MESSAGE"

\* The bands with the lower limits included.
FallbackTextInclusive(rel, mode) ==
    IF rel >= high_relevance THEN "fallback_check_later"
    ELSE IF rel >= medium_relevance THEN "fallback_categories"
    ELSE ScopeMessage(mode)

\* _generate_intelligent_fallback_response: the text chosen by score band.
FallbackText(rel, mode) ==
    IF rel > high_relevance THEN "fallback_check_later"
    ELSE IF rel > medium_relevance THEN "fallback_categories"
    ELSE ScopeMessage(mode)

\* MessageStore.add raises ValueError("Message text cannot be empty") when
\* text.strip() is empty.
IsBlank(text) == text = "blank"

\* What one call of chat.completions.create can lead to inside the retry loop.
GenOutcomes == {"raise", "empty", "whitespace", "natural", "json", "json_blank_summary"}

\* _parse_ai_response_enhanced on the content of a reply: None, or the
\* successful parse (text, html, confidence).
parse_ai_response_enhanced(out) ==
    CASE out = "natural" -> Some(Payload("a1", "none", "High"))
      [] out = "json" -> Some(Payload("a2", "html", "Medium"))
      [] out = "json_blank_summary" -> Some(Payload("blank", "html", "Medium"))
      [] OTHER -> None

NoReq ==
    [n |-> 0, text |-> None, rel |-> 0, only_qmark |-> FALSE, lang |-> "th", key |-> None,
     phase |-> "primary", attempt |-> 0, ai |-> None, gen_calls |-> 0,
     lookups |-> 0, stores |-> 0, path |-> <<>>, outcome |-> "none",
     reply |-> None, live |-> None, from_cache |-> FALSE, found |-> "none"]

\* ChatEngine / GuideEngine construction; the client is there when an API
\* key was configured.
ReplyInit ==
    /\ pc = "idle"
    /\ req = NoReq
    /\ ai_mode \in Modes
    /\ openai_client \in BOOLEAN

ReplyFrame == UNCHANGED <<ai_mode, openai_client, concVars, sc, nm, fn>>

CacheUntouched == UNCHANGED <<response_cache, cache_timestamps, now, last_put,
                              evicted, put_log, only_puts, cache_op>>

Enter(r, state) == [r EXCEPT !.path = Append(r.path, state)]

\* return self.append_assistant(text, html=...) where text is not blank
Answered(r, text, html) ==
    [Enter(r, "Answered") EXCEPT !.outcome = "answered",
                                 !.reply = Some([text |-> text, html |-> html])]

\* return self.append_assistant(<refusal message>)
Rejected(r, text) ==
    [Enter(r, "Rejected") EXCEPT !.outcome = "rejected",
                                 !.reply = Some([text |-> text, html |-> "none"])]

\* build_reply is called.  (Step 0, the conversation-memory update, is
\* wrapped in try/except and touches nothing modelled here.)
BeginRequest ==
    /\ pc \in {"idle", "done"}
    /\ req.n < MaxRequests
    /\ pc' = "validate"
    /\ req' = [Enter(NoReq, "Start") EXCEPT !.n = req.n + 1]
    /\ cache_op' = NoOp
    /\ UNCHANGED <<response_cache, cache_timestamps, now, last_put, evicted,
                   put_log, only_puts>>
    /\ ReplyFrame

\* Step 1: validation_result = self._validate_and_preprocess_input(user_text)
Validate(t, sig) ==
    /\ pc = "validate"
    /\ LET v == validate_and_preprocess_input(t)
           r == [req EXCEPT !.text = Some(t)]
       IN  IF v \in ValidationErrors
           THEN /\ sig = [kw |-> 0, dest |-> 0, patterns |-> {}]
                /\ req' = Rejected(r, v)
                /\ pc' = "done"
           ELSE /\ req' = [Enter(r, "Validated") EXCEPT
                               !.rel = SignalScore(sig),
                               !.only_qmark = OnlyQuestionMark(sig)]
                /\ pc' = "samut"
    /\ CacheUntouched /\ ReplyFrame

ValidateInput == pc = "validate" /\ \E t \in UserTexts, sig \in Signals : Validate(t, sig)

\* Step 1.5: if not self._validate_samutsongkhram_only(processed_text)
SamutsongkhramOnly(allowed) ==
    /\ pc = "samut"
    /\ IF allowed
       THEN pc' = "relevance" /\ UNCHANGED req
       ELSE pc' = "done" /\ req' = Rejected(req, "SAMUTSONGKHRAM_ONLY_MESSAGE")
    /\ CacheUntouched /\ ReplyFrame

\* Step 2: if relevance_score < 0.1
CheckRelevance ==
    /\ pc = "relevance"
    /\ IF req.rel < very_low_relevance
       THEN pc' = "done" /\ req' = Rejected(req, ScopeMessage(ai_mode))
       ELSE pc' = "scope" /\ UNCHANGED req
    /\ CacheUntouched /\ ReplyFrame

\* lang = self._detect_language(cleaned); Steps 3 and 4
Scope(lang) ==
    /\ pc = "scope"
    /\ req' = [Enter(req, "Scoped") EXCEPT !.lang = lang]
    /\ pc' = "guide"
    /\ CacheUntouched /\ ReplyFrame

\* Step 5: the province guide block
ProvinceGuide(is_province_query) ==
    /\ pc = "guide"
    /\ IF is_province_query
       THEN pc' = "done" /\ req' = Answered(req, "province_guides", "html")
       ELSE pc' = "search" /\ UNCHANGED req
    /\ CacheUntouched /\ ReplyFrame

\* What a destination search returns: nothing, only destinations whose name
\* holds none of the Samut Songkhram keywords, or at least one that does.
SearchResults == {"none", "outside", "inside"}

\* A filter that keeps every destination.
FilterKeepsAll(result) == result # "none"

\* _filter_destinations_samutsongkhram_only(result) is not empty
FilterKeepsSome(result) == result = "inside"

\* The best result of the searches a request made so far.
Found(r, result) ==
    IF r.found = "inside" \/ result = "inside" THEN "inside"
    ELSE IF r.found = "outside" \/ result = "outside" THEN "outside"
    ELSE "none"

\* Step 6: destinations = filter(self._search_destinations_enhanced(...))
LocalSearch(result) ==
    /\ pc = "search"
    /\ LET r == [req EXCEPT !.found = Found(req, result)] IN
       IF FilterKeepsSome(result)
       THEN pc' = "done" /\ req' = Answered(Enter(r, "Resolved"), "found_places", "html")
       ELSE pc' = "fuzzy" /\ req' = r
    /\ CacheUntouched /\ ReplyFrame

\* fuzzy_matches = filter(self._fuzzy_search_destinations(cleaned))
FuzzySearch(result) ==
    /\ pc = "fuzzy"
    /\ LET r == [req EXCEPT !.found = Found(req, result)] IN
       IF FilterKeepsSome(result)
       THEN pc' = "done" /\ req' = Answered(Enter(r, "Resolved"), "did_you_mean", "html")
       ELSE pc' = "client" /\ req' = Enter(r, "Resolved")
    /\ CacheUntouched /\ ReplyFrame

\* Step 7: if self._openai_client:
ClientCheck ==
    /\ pc = "client"
    /\ pc' = IF openai_client THEN "cache_get" ELSE "fallback"
    /\ UNCHANGED req
    /\ CacheUntouched /\ ReplyFrame

\* The entry the history knows to be in the cache for key k, if any: put,
\* not evicted since, and younger than the TTL.
LiveEntry(k) ==
    IF /\ k = last_put.key
       /\ last_put.put # None
       /\ ~evicted
       /\ now - last_put.put[1].at < cache_max_age
    THEN Some(last_put.put[1].payload)
    ELSE None

\* cache_key = self._get_cache_key(enhanced_query, lang, self._ai_mode)
\* cached_response = self._get_cached_response(cache_key); on a hit
\* return self.append_assistant(text_str, html=html_val), outside any try.
CacheLookup(q) ==
    /\ pc = "cache_get"
    /\ LET k == get_cache_key(q, req.lang, ai_mode)
           g == get_cached_response(response_cache, cache_timestamps, k, now)
           r == [req EXCEPT !.key = Some(k), !.lookups = req.lookups + 1,
                            !.live = LiveEntry(k)]
       IN  /\ response_cache' = g.rc
           /\ cache_timestamps' = g.ts
           /\ cache_op' = [kind |-> "get", key |-> k, ret |-> g.ret, err |-> g.err]
           /\ IF g.ret # None
              THEN /\ pc' = "done"
                   /\ req' = IF IsBlank(g.ret[1].text)
                             THEN [r EXCEPT !.outcome = "raised", !.from_cache = TRUE]
                             ELSE [Answered(r, g.ret[1].text, g.ret[1].html)
                                       EXCEPT !.from_cache = TRUE]
              ELSE /\ pc' = "generate"
                   /\ req' = r
    /\ GetHistory
    /\ UNCHANGED now /\ ReplyFrame

\* The generation call returned no successful response: in the primary try
\* nothing was raised, so the except block is skipped; in the fallback
\* try the if is skipped.  Both fall to Step 8.
AfterFailure == "fallback"

\* One pass of the retry loop of _generate_ai_travel_response_enhanced.
GenerateAttempt(out) ==
    /\ pc = "generate"
    /\ LET parsed == parse_ai_response_enhanced(out)
           r == [req EXCEPT !.gen_calls = req.gen_calls + 1]
       IN  IF parsed # None
           THEN /\ pc' = "cache_put"
                /\ req' = [r EXCEPT !.ai = parsed, !.attempt = 0]
           ELSE IF req.attempt = max_retries - 1
                THEN /\ pc' = AfterFailure
                     /\ req' = [r EXCEPT !.attempt = 0]
                ELSE /\ pc' = "generate"
                     /\ req' = [r EXCEPT !.attempt = req.attempt + 1]
    /\ CacheUntouched /\ ReplyFrame

\* An exception inside the try of Step 7: the primary try hands over to the
\* fallback lookup, the fallback try to Step 8.
AfterException(phase) == IF phase = "primary" THEN "fb_get" ELSE "fallback"

\* self._cache_response(cache_key, cache_data); the fallback stores the
\* response with confidence "Low".
CacheStore ==
    /\ pc = "cache_put"
    /\ LET a == req.ai[1]
           data == IF req.phase = "primary" THEN a
                   ELSE Payload(a.text, a.html, "Low")
           k == req.key[1]
           c == cache_response(response_cache, cache_timestamps, k, data, now)
       IN  /\ response_cache' = c.rc
           /\ cache_timestamps' = c.ts
           /\ cache_op' = [kind |-> "put", key |-> k, ret |-> None, err |-> c.err]
           /\ PutHistory(k, data, c.evictedKey)
           /\ req' = [req EXCEPT !.stores = req.stores + 1,
                                 !.phase = IF c.err THEN "fallback" ELSE req.phase]
           /\ pc' = IF c.err THEN AfterException(req.phase) ELSE "append"
    /\ UNCHANGED now /\ ReplyFrame

\* return self.append_assistant(text_str, html=html_val) inside the try
AppendGenerated ==
    /\ pc = "append"
    /\ LET a == req.ai[1] IN
       IF IsBlank(a.text)
       THEN /\ pc' = AfterException(req.phase)
            /\ req' = [req EXCEPT !.phase = "fallback"]
       ELSE /\ pc' = "done"
            /\ req' = Answered(req, a.text, a.html)
    /\ CacheUntouched /\ ReplyFrame

\* except Exception: fallback_cache_key = self._get_cache_key(cleaned, ...)
\* cached_fallback = self._get_cached_response(fallback_cache_key)
FallbackLookup(q) ==
    /\ pc = "fb_get"
    /\ LET k == get_cache_key(q, req.lang, ai_mode)
           g == get_cached_response(response_cache, cache_timestamps, k, now)
           r == [req EXCEPT !.key = Some(k), !.lookups = req.lookups + 1]
       IN  /\ response_cache' = g.rc
           /\ cache_timestamps' = g.ts
           /\ cache_op' = [kind |-> "get", key |-> k, ret |-> g.ret, err |-> g.err]
           /\ IF g.ret # None
              THEN IF IsBlank(g.ret[1].text)
                   THEN pc' = AfterException("fallback") /\ req' = r
                   ELSE /\ pc' = "done"
                        /\ req' = [Answered(r, g.ret[1].text, g.ret[1].html)
                                       EXCEPT !.from_cache = TRUE]
              ELSE pc' = "generate" /\ req' = r
    /\ GetHistory
    /\ UNCHANGED now /\ ReplyFrame

\* Step 8: return self._generate_intelligent_fallback_response(...)
FinalFallback ==
    /\ pc = "fallback"
    /\ pc' = "done"
    /\ req' = Answered(req, FallbackText(req.rel, ai_mode), "none")
    /\ CacheUntouched /\ ReplyFrame

TickReply == ClockStep(ReplyMaxTime)

-----------------------------------------------------------------------------
(* _normalize (chatbot.py) and _normalize (app.py, without unidecode) over *)
(* strings of a small alphabet.  A string is a sequence of characters; a   *)
(* character is named by a string:                                         *)
(*   "a" U+0061, "A" U+0041, "sp" U+0020 (whitespace), "acute" U+0301      *)
(*   (combining acute accent, category Mn), "a_acute" U+00E1 (precomposed),*)
(*   "mod_A" U+1D2C (modifier letter capital A, compatibility character),  *)
(*   "spacing_acute" U+00B4 (acute accent, compatibility character),       *)
(*   and for the relevance score "w", "W", "t", "?".                       *)

MaxNormLen == 2

NormChars == {"a", "A", "sp", "acute", "a_acute", "mod_A", "spacing_acute"}

\* All sequences over chars of length at most n.
StringsUpTo(chars, n) == UNION {[1..k -> chars] : k \in 0..n}

\* str.lower() on one character.
Lower(c) ==
    CASE c = "A" -> "a"
      [] c = "W" -> "w"
      [] OTHER -> c

LowerStr(s) == [i \in DOMAIN s |-> Lower(s[i])]

\* str.isspace() on one character.
IsSpace(c) == c = "sp"

RECURSIVE LStrip(_)
LStrip(s) == IF s # <<>> /\ IsSpace(Head(s)) THEN LStrip(Tail(s)) ELSE s

RECURSIVE RStrip(_)
RStrip(s) ==
    IF s # <<>> /\ IsSpace(s[Len(s)]) THEN RStrip(SubSeq(s, 1, Len(s) - 1)) ELSE s

\* str.strip()
Strip(s) == RStrip(LStrip(s))

\* unicodedata.normalize("NFKD", c) on one character.
NFKDChar(c) ==
    CASE c = "a_acute" -> <<"a", "acute">>
      [] c = "mod_A" -> <<"A">>
      [] c = "spacing_acute" -> <<"sp", "acute">>
      [] OTHER -> <<c>>

\* unicodedata.normalize("NFD", c) on one character: canonical decomposition
\* only.
NFDChar(c) ==
    CASE c = "a_acute" -> <<"a", "acute">>
      [] OTHER -> <<c>>

RECURSIVE NFKD(_)
NFKD(s) == IF s = <<>> THEN <<>> ELSE NFKDChar(Head(s)) \o NFKD(Tail(s))

RECURSIVE NFD(_)
NFD(s) == IF s = <<>> THEN <<>> ELSE NFDChar(Head(s)) \o NFD(Tail(s))

\* unicodedata.category(ch) != "Mn"
NotMn(c) == c # "acute"

\* BaseAIEngine._normalize
normalize(text) == SelectSeq(NFKD(Strip(LowerStr(text))), NotMn)

\* app._strip_diacritics
strip_diacritics(text) == SelectSeq(NFD(text), NotMn)

\* app._normalize when unidecode is not installed
app_normalize(text) == IF text = <<>> THEN <<>> ELSE strip_diacritics(LowerStr(text))

NormInit ==
    nm \in {[input |-> s, phase |-> "input", once |-> <<>>, twice |-> <<>>,
             app_once |-> <<>>, app_twice |-> <<>>] :
                s \in StringsUpTo(NormChars, MaxNormLen)}

NormFrame == UNCHANGED <<response_cache, cache_timestamps, now, last_put, evicted,
                         put_log, only_puts, cache_op, concVars, replyVars, sc, fn>>

\* normalize(s)
NormalizeOnce ==
    /\ nm.phase = "input"
    /\ nm' = [nm EXCEPT !.phase = "once",
                        !.once = normalize(nm.input),
                        !.app_once = app_normalize(nm.input)]
    /\ NormFrame

\* normalize(normalize(s))
NormalizeTwice ==
    /\ nm.phase = "once"
    /\ nm' = [nm EXCEPT !.phase = "twice",
                        !.twice = normalize(nm.once),
                        !.app_twice = app_normalize(nm.app_once)]
    /\ NormFrame

-----------------------------------------------------------------------------
(* _calculate_travel_relevance over small texts, keyword lists and         *)
(* destination-name lists.  The two word patterns of question_patterns are *)
(* stood for by the one-letter words "w" (where, what, how, ...) and "t"   *)
(* (the Thai words); the third is the literal "?".                         *)

MaxTextLen == 3
MaxListLen == 2

ScoreChars == {"w", "W", "t", "?", "sp"}

\* self._normalized_keywords and self._normalized_dest_names hold normalized
\* strings; a name that normalizes to nothing is the empty string.
KeywordPool == {<<"w">>, <<"w", "t">>}
DestNamePool == {<<"t">>, <<>>}

\* keyword in normalized_text
IsSubstring(p, s) ==
    \E i \in 0..(Len(s) - Len(p)) : SubSeq(s, i + 1, i + Len(p)) = p

RECURSIVE Hits(_, _)
\* The number of entries of list found in text.
Hits(list, text) ==
    IF list = <<>> THEN 0
    ELSE (IF IsSubstring(Head(list), text) THEN 1 ELSE 0) + Hits(Tail(list), text)

\* \w of the regular expressions.
IsWordChar(c) == c \in {"w", "W", "t", "a", "A"}

\* re.search(r'\b(word)\b', s) for a one-letter word.
WordMatch(word, s) ==
    \E i \in DOMAIN s :
        /\ s[i] = word
        /\ i = 1 \/ ~IsWordChar(s[i - 1])
        /\ i = Len(s) \/ ~IsWordChar(s[i + 1])

\* The question_patterns that match text_lower.
MatchedPatterns(text_lower) ==
    {p \in QuestionPatterns :
        \/ p = "wh_word" /\ WordMatch("w", text_lower)
        \/ p = "thai_word" /\ WordMatch("t", text_lower)
        \/ p = "question_mark" /\ \E i \in DOMAIN text_lower : text_lower[i] = "?"}

\* BaseAIEngine._calculate_travel_relevance, in tenths.
calculate_travel_relevance(text, keywords, dest_names) ==
    LET text_lower == LowerStr(text)
        normalized_text == normalize(text)
        travel_score == 2 * Hits(keywords, normalized_text)
        destination_score == 4 * Hits(dest_names, normalized_text)
        question_score == Cardinality(MatchedPatterns(text_lower))
    IN  Relevance(travel_score, destination_score, question_score)

ScoreInit ==
    sc \in {[text |-> t, keywords |-> k, dest_names |-> d, phase |-> "input",
             score |-> 0] :
                t \in StringsUpTo(ScoreChars, MaxTextLen),
                k \in StringsUpTo(KeywordPool, MaxListLen),
                d \in StringsUpTo(DestNamePool, MaxListLen)}

\* relevance_score = self._calculate_travel_relevance(processed_text)
Score ==
    /\ sc.phase = "input"
    /\ sc' = [sc EXCEPT !.phase = "scored",
                        !.score = calculate_travel_relevance(sc.text, sc.keywords,
                                                             sc.dest_names)]
    /\ UNCHANGED <<response_cache, cache_timestamps, now, last_put, evicted,
                   put_log, only_puts, cache_op, concVars, replyVars, nm, fn>>

-----------------------------------------------------------------------------
(* _levenshtein (app.py, bounded by max_distance) and                      *)
(* _levenshtein_distance (chatbot.py, unbounded) on short strings.  A row  *)
(* of the table is a sequence whose element j + 1 is the source's row[j].  *)

MaxLevLen == 5
MaxDistance == 2

LevChars == {"a", "b"}

Abs(x) == IF x < 0 THEN -x ELSE x

Min3(x, y, z) == Min2(x, Min2(y, z))

\* The length test of _levenshtein, true one step too early.
LengthGapReaches(a, b, max_distance) == Abs(Len(a) - Len(b)) >= max_distance

\* abs(len(a) - len(b)) > max_distance
LengthGapExceeds(a, b, max_distance) == Abs(Len(a) - Len(b)) > max_distance

\* delete_cost = previous[j] + 1
DeleteCost(previous, j) == previous[j + 1] + 1

\* insert_cost = current[j - 1] + 1
InsertCost(current, j) == current[j] + 1

\* substitute_cost = previous[j - 1] + (char_a != char_b)
SubstituteCost(previous, j, char_a, char_b) ==
    previous[j] + (IF char_a # char_b THEN 1 ELSE 0)

RECURSIVE LevRow(_, _, _, _)
\* The inner loop over b: current holds row[0..j-1], the result is the row.
LevRow(char_a, b, previous, current) ==
    LET j == Len(current) IN
    IF j > Len(b) THEN current
    ELSE LevRow(char_a, b, previous,
                Append(current, Min3(InsertCost(current, j),
                                     DeleteCost(previous, j),
                                     SubstituteCost(previous, j, char_a, b[j]))))

RECURSIVE SeqMin(_)
\* row_min: the least element of a non-empty row.
SeqMin(row) ==
    IF Len(row) = 1 THEN row[1] ELSE Min2(row[1], SeqMin(Tail(row)))

\* previous = list(range(len(b) + 1))
FirstRow(b) == [j \in 1..(Len(b) + 1) |-> j - 1]

RECURSIVE BoundedRowsEager(_, _, _, _, _)
\* The outer loop leaving as soon as the row minimum reaches the bound.
BoundedRowsEager(a, b, i, previous, max_distance) ==
    IF i > Len(a) THEN previous[Len(previous)]
    ELSE LET current == LevRow(a[i], b, previous, <<i>>) IN
         IF SeqMin(current) >= max_distance THEN max_distance + 1
         ELSE BoundedRowsEager(a, b, i + 1, current, max_distance)

RECURSIVE BoundedRows(_, _, _, _, _)
\* The outer loop of _levenshtein from row i on.
BoundedRows(a, b, i, previous, max_distance) ==
    IF i > Len(a) THEN previous[Len(previous)]
    ELSE LET current == LevRow(a[i], b, previous, <<i>>) IN
         IF SeqMin(current) > max_distance THEN max_distance + 1
         ELSE BoundedRows(a, b, i + 1, current, max_distance)

\* app._levenshtein(a, b, max_distance=...)
levenshtein(a, b, max_distance) ==
    IF a = b THEN 0
    ELSE IF LengthGapExceeds(a, b, max_distance) THEN max_distance + 1
    ELSE IF a = <<>> THEN Len(b)
    ELSE IF b = <<>> THEN Len(a)
    ELSE IF Len(a) > Len(b)
         THEN BoundedRows(b, a, 1, FirstRow(a), max_distance)
         ELSE BoundedRows(a, b, 1, FirstRow(b), max_distance)

RECURSIVE UnboundedRows(_, _, _, _)
\* The outer loop of _levenshtein_distance from row i on.
UnboundedRows(a, b, i, previous) ==
    IF i > Len(a) THEN previous[Len(previous)]
    ELSE UnboundedRows(a, b, i + 1, LevRow(a[i], b, previous, <<i>>))

\* BaseAIEngine._levenshtein_distance(a, b)
levenshtein_distance(a, b) ==
    IF a = b THEN 0
    ELSE IF a = <<>> THEN Len(b)
    ELSE IF b = <<>> THEN Len(a)
    ELSE UnboundedRows(a, b, 1, FirstRow(b))

LevInit ==
    fn \in {[a |-> a, b |-> b, max_distance |-> m, done |-> {},
             ab |-> 0, ba |-> 0, aa |-> 0, u_ab |-> 0, u_ba |-> 0, u_aa |-> 0] :
                a \in StringsUpTo(LevChars, MaxLevLen),
                b \in StringsUpTo(LevChars, MaxLevLen),
                m \in 0..MaxDistance}

FnFrame == UNCHANGED <<response_cache, cache_timestamps, now, last_put, evicted,
                       put_log, only_puts, cache_op, concVars, replyVars, sc, nm>>

\* _levenshtein called on (a, b), (b, a) and (a, a)
Levenshtein ==
    /\ "bounded" \notin fn.done
    /\ fn' = [fn EXCEPT !.done = fn.done \cup {"bounded"},
                        !.ab = levenshtein(fn.a, fn.b, fn.max_distance),
                        !.ba = levenshtein(fn.b, fn.a, fn.max_distance),
                        !.aa = levenshtein(fn.a, fn.a, fn.max_distance)]
    /\ FnFrame

\* _levenshtein_distance called on (a, b), (b, a) and (a, a)
LevenshteinDistance ==
    /\ "unbounded" \notin fn.done
    /\ fn' = [fn EXCEPT !.done = fn.done \cup {"unbounded"},
                        !.u_ab = levenshtein_distance(fn.a, fn.b),
                        !.u_ba = levenshtein_distance(fn.b, fn.a),
                        !.u_aa = levenshtein_distance(fn.a, fn.a)]
    /\ FnFrame

-----------------------------------------------------------------------------
(* Province aliases: BaseAIEngine._build_province_aliases and              *)
(* _resolve_province.  PROVINCE_SYNONYMS is a dict {province: [synonyms]}: *)
(* a sequence of <<province, synonyms>> pairs with distinct provinces.  The *)
(* alias table is a dict {normalized alias: province}.  A similarity        *)
(* 1.0 - distance / max_len is kept as the fraction num / den with          *)
(* den = max_len; for lengths below ten the float comparisons of the source *)
(* agree with the exact ones (from length ten on the float difference       *)
(* 0.9 - 0.8 falls short of 0.1, which only refuses more).                  *)

MaxProvinces == 2

\* Province names and synonyms a table may hold.
AliasWords ==
    { <<"a", "b", "c", "d">>, <<"A", "b", "c", "d">>, <<"a", "b", "c", "d", "e">>,
      <<"a", "b", "c", "f">>, <<"a", "b">> }

\* Texts passed to _resolve_province.
ResolveTexts ==
    AliasWords \cup
    { <<>>, <<"sp", "a", "b", "c", "d">>, <<"x", "a", "b", "c", "d">>,
      <<"a", "b", "c", "x">>, <<"a", "b", "x", "d", "e">>, <<"a", "b", "c", "e">>,
      <<"a", "b", "x">>, <<"x", "y">> }

\* Words used as synonyms; both are province names as well.
SynonymWords == { <<"a", "b">>, <<"a", "b", "c", "d", "e">> }

\* The synonym list of one province, as the set the source turns it into.
SynonymSets == {{}} \cup {{w} : w \in SynonymWords}

\* PROVINCE_SYNONYMS: dict keys are distinct.
ProvinceSynonyms ==
    UNION {{d \in [1..n -> AliasWords \X SynonymSets] :
                \A i, j \in 1..n : i # j => d[i][1] # d[j][1]} : n \in 0..MaxProvinces}

Provinces(synonyms) == {synonyms[i][1] : i \in DOMAIN synonyms}

RECURSIVE SetOrders(_)
\* The orders in which a Python set may be iterated.
SetOrders(S) ==
    IF S = {} THEN {<<>>}
    ELSE UNION {{<<x>> \o rest : rest \in SetOrders(S \ {x})} : x \in S}

\* A table that maps each alias to the value it was built from.
AliasTargetValue(value, province) == value

\* aliases[...] = province
AliasTarget(value, province) == province

RECURSIVE AddAliases(_, _, _)
\* for value in {province, *synonyms}: aliases[self._normalize(value)] = province
AddAliases(aliases, values, province) ==
    IF values = <<>> THEN aliases
    ELSE AddAliases(DictSet(aliases, normalize(Head(values)),
                            AliasTarget(Head(values), province)),
                    Tail(values), province)

RECURSIVE BuildFrom(_, _, _)
\* The outer loop from entry i on: every table a set order can produce.
BuildFrom(aliases, synonyms, i) ==
    IF i > Len(synonyms) THEN {aliases}
    ELSE UNION {BuildFrom(AddAliases(aliases, order, synonyms[i][1]), synonyms, i + 1) :
                    order \in SetOrders({synonyms[i][1]} \cup synonyms[i][2])}

build_province_aliases(synonyms) == BuildFrom(<<>>, synonyms, 1)

\* alias == normalized or (alias in normalized and len(alias) >= 4)
AliasMatches(alias, normalized) ==
    alias = normalized \/ (IsSubstring(alias, normalized) /\ Len(alias) >= 4)

\* The first tier: the province of the first matching alias in dict order.
FirstMatch(aliases, normalized) ==
    IF \E i \in DOMAIN aliases : AliasMatches(aliases[i][1], normalized)
    THEN LET i == CHOOSE i \in DOMAIN aliases :
                    /\ AliasMatches(aliases[i][1], normalized)
                    /\ \A j \in 1..(i - 1) : ~AliasMatches(aliases[j][1], normalized)
         IN  Some(aliases[i][2])
    ELSE None

Max2(a, b) == IF a >= b THEN a ELSE b

ZeroSim == [num |-> 0, den |-> 1]

\* similarity = 1.0 - (distance / max_len), max_len = max(len, len) or 1
Similarity(normalized, alias) ==
    LET distance == levenshtein_distance(normalized, alias)
        longest  == Max2(Len(normalized), Len(alias))
        max_len  == IF longest = 0 THEN 1 ELSE longest
    IN  [num |-> max_len - distance, den |-> max_len]

\* x >= y
SimGE(x, y) == x.num * y.den >= y.num * x.den

\* x >= tenths / 10
SimAtLeast(x, tenths) == 10 * x.num >= tenths * x.den

\* (x - y) >= tenths / 10
SimLead(x, y, tenths) ==
    10 * (x.num * y.den - y.num * x.den) >= tenths * x.den * y.den

\* scored, before the sort
Scored(aliases, normalized) ==
    [i \in DOMAIN aliases |-> Similarity(normalized, aliases[i][1])]

\* scored[0] after the stable descending sort: the first of the best.
TopIndex(scored) ==
    CHOOSE i \in DOMAIN scored :
        /\ \A j \in DOMAIN scored : SimGE(scored[i], scored[j])
        /\ \A j \in 1..(i - 1) : ~SimGE(scored[j], scored[i])

\* scored[1][1] after the sort if len(scored) > 1 else 0.0
SecondSim(scored) ==
    IF Len(scored) > 1
    THEN LET top == TopIndex(scored)
             j   == CHOOSE j \in DOMAIN scored \ {top} :
                        \A k \in DOMAIN scored \ {top} : SimGE(scored[j], scored[k])
         IN  scored[j]
    ELSE ZeroSim

\* A guard that looks at the top similarity only.
FuzzyGuardTopOnly(top_sim, second_sim) == SimAtLeast(top_sim, 7)

\* The two return conditions of the ambiguity guard.
FuzzyGuard(top_sim, second_sim) ==
    \/ SimAtLeast(top_sim, 8) /\ SimLead(top_sim, second_sim, 1)
    \/ SimAtLeast(top_sim, 7) /\ SimLead(top_sim, second_sim, 2)

\* The second tier is entered: if normalized and self._province_aliases
FuzzyTier(aliases, normalized) ==
    FirstMatch(aliases, normalized) = None /\ normalized # <<>> /\ aliases # <<>>

\* BaseAIEngine._resolve_province
resolve_province(aliases, text) ==
    LET normalized == normalize(text) IN
    IF FirstMatch(aliases, normalized) # None THEN FirstMatch(aliases, normalized)
    ELSE IF FuzzyTier(aliases, normalized)
    THEN LET scored == Scored(aliases, normalized)
             top    == TopIndex(scored)
         IN  IF FuzzyGuard(scored[top], SecondSim(scored))
             THEN Some(aliases[top][2])
             ELSE None
    ELSE None

AliasInit ==
    fn \in {[synonyms |-> s, text |-> t, phase |-> "new", province_aliases |-> <<>>,
             ret |-> None, tier |-> "none", top_alias |-> <<>>,
             top_sim |-> ZeroSim, second_sim |-> ZeroSim] :
                s \in ProvinceSynonyms, t \in ResolveTexts}

\* __init__: self._province_aliases = self._build_province_aliases()
BuildProvinceAliases ==
    /\ fn.phase = "new"
    /\ \E aliases \in build_province_aliases(fn.synonyms) :
          fn' = [fn EXCEPT !.phase = "built", !.province_aliases = aliases]
    /\ FnFrame

\* One call of _resolve_province(text); tier, top_alias, top_sim and
\* second_sim record the locals of the call.
ResolveProvince ==
    /\ fn.phase = "built"
    /\ LET aliases    == fn.province_aliases
           normalized == normalize(fn.text)
           fuzzy      == FuzzyTier(aliases, normalized)
           scored     == Scored(aliases, normalized)
       IN  fn' = [fn EXCEPT
                    !.phase = "resolved",
                    !.ret = resolve_province(aliases, fn.text),
                    !.tier = IF FirstMatch(aliases, normalized) # None THEN "match"
                             ELSE IF fuzzy THEN "fuzzy" ELSE "none",
                    !.top_alias = IF fuzzy THEN aliases[TopIndex(scored)][1] ELSE <<>>,
                    !.top_sim = IF fuzzy THEN scored[TopIndex(scored)] ELSE ZeroSim,
                    !.second_sim = IF fuzzy THEN SecondSim(scored) ELSE ZeroSim]
    /\ FnFrame

-----------------------------------------------------------------------------
(* BaseAIEngine._parse_ai_response_enhanced on the text of a generation    *)
(* reply.  The text is a sequence of tokens: "sp" (whitespace), "w" (other *)
(* prose), "{", "}", and the members a JSON object may hold:               *)
(*   "loc"        "location": a string                                     *)
(*   "att"        "attractions": a non-empty list of objects               *)
(*   "att_empty"  "attractions": []                                        *)
(*   "att_strs"   "attractions": a list of strings                         *)
(*   "att_text"   "attractions": a non-empty string                        *)
(*   "sum"        "summary": a non-blank string                            *)
(*   "sum_blank"  "summary": a string of whitespace                        *)
(*   "sum_empty"  "summary": ""                                            *)
(* "att" holds an object of its own, so its text has a "{" and a "}".      *)
(* A span parses as JSON when it is "{", members and whitespace, "}", or   *)
(* when it is the object inside a single "att".                            *)
(* The text of a reply is a token sequence too: <<"sum">>, <<"sp">>,       *)
(* <<"fixed_summary">>, <<"count_summary">> or the stripped content.       *)

MaxContentLen == 4

AttractionTokens == {"att", "att_empty", "att_strs", "att_text"}

SummaryTokens == {"sum", "sum_blank", "sum_empty"}

MemberTokens == {"loc"} \cup AttractionTokens \cup SummaryTokens

ContentTokens == {"sp", "w", "{", "}"} \cup MemberTokens

Contents == StringsUpTo(ContentTokens, MaxContentLen)

\* The key of a member.
MemberKey(tok) ==
    CASE tok \in AttractionTokens -> "attractions"
      [] tok \in SummaryTokens -> "summary"
      [] OTHER -> "location"

\* The tokens whose text holds the character ch ("{" or "}").
Holding(ch) == {ch, "att"}

\* content.find(ch): the 0-based index of the first token holding ch, or -1
Find(content, ch) ==
    IF \E i \in DOMAIN content : content[i] \in Holding(ch)
    THEN (CHOOSE i \in DOMAIN content :
            /\ content[i] \in Holding(ch)
            /\ \A j \in 1..(i - 1) : content[j] \notin Holding(ch)) - 1
    ELSE -1

\* content.rfind(ch): the 0-based index of the last token holding ch, or -1
RFind(content, ch) ==
    IF \E i \in DOMAIN content : content[i] \in Holding(ch)
    THEN (CHOOSE i \in DOMAIN content :
            /\ content[i] \in Holding(ch)
            /\ \A j \in (i + 1)..Len(content) : content[j] \notin Holding(ch)) - 1
    ELSE -1

\* content[json_start:json_end]
JsonSpan(content) ==
    SubSeq(content, Find(content, "{") + 1, RFind(content, "}") + 1)

\* json_start >= 0 and json_end > json_start
HasJsonSpan(content) ==
    Find(content, "{") >= 0 /\ RFind(content, "}") + 1 > Find(content, "{")

RECURSIVE Members(_, _)
\* The dict json.loads builds: a later member replaces an earlier one.
Members(data, toks) ==
    IF toks = <<>> THEN data
    ELSE Members(IF Head(toks) \in MemberTokens
                 THEN DictSet(data, MemberKey(Head(toks)), Head(toks))
                 ELSE data,
                 Tail(toks))

\* json.loads(json_str): the dict, or None for JSONDecodeError.
JsonLoads(json_str) ==
    LET inner == SubSeq(json_str, 2, Len(json_str) - 1) IN
    IF json_str = <<"att">> THEN Some(<<>>)
    ELSE IF /\ Len(json_str) >= 2
            /\ json_str[1] = "{" /\ json_str[Len(json_str)] = "}"
            /\ \A i \in DOMAIN inner : inner[i] \in MemberTokens \cup {"sp"}
    THEN Some(Members(<<>>, inner))
    ELSE None

\* BaseAIEngine._fix_incomplete_ai_response
fix_incomplete_ai_response(data) ==
    LET d1 == IF DictHas(data, "location") THEN data
              ELSE DictSet(data, "location", "query")
        d2 == IF DictHas(d1, "summary") THEN d1
              ELSE DictSet(d1, "summary", "fixed_summary")
    IN  IF ~DictHas(d2, "attractions") \/ DictGet(d2, "attractions") = "att_text"
        THEN DictSet(d2, "attractions", "att")
        ELSE d2

\* required_fields = ["location", "attractions", "summary"]
HasRequiredFields(data) ==
    \A field \in {"location", "attractions", "summary"} : DictHas(data, field)

\* BaseAIEngine._build_ai_response_html: "" without attractions, the cards
\* for a list of objects, AttributeError at item.get for anything else.
build_ai_response_html(data) ==
    LET attractions == IF DictHas(data, "attractions")
                       THEN DictGet(data, "attractions") ELSE "att_empty"
    IN  CASE attractions = "att_empty" -> "empty"
          [] attractions = "att" -> "html"
          [] OTHER -> "raise"

\* summary_text, with _generate_fallback_summary for an empty one
SummaryText(data) ==
    LET summary == IF DictHas(data, "summary") THEN DictGet(data, "summary")
                   ELSE "sum_empty"
    IN  CASE summary = "sum" -> <<"sum">>
          [] summary = "sum_blank" -> <<"sp">>
          [] summary = "fixed_summary" -> <<"fixed_summary">>
          [] OTHER -> <<"count_summary">>

Reply(text, html, conf, type) ==
    [success |-> TRUE, text |-> text, html |-> html, confidence |-> conf, type |-> type]

\* An except block that drops the content.
OnParseErrorDiscard(content) == None

\* except Exception: the raw content with confidence "Low", None when blank
OnParseError(content) ==
    IF Strip(content) # <<>>
    THEN Some(Reply(Strip(content), "none", "Low", "fallback"))
    ELSE None

\* if content.strip(): the natural text reply; otherwise None
NaturalText(content) ==
    IF Strip(content) # <<>>
    THEN Some(Reply(Strip(content), "none", "High", "natural_response"))
    ELSE None

\* BaseAIEngine._parse_ai_response_enhanced
ParseAiResponseEnhanced(content) ==
    IF HasJsonSpan(content) /\ JsonLoads(JsonSpan(content)) # None
    THEN LET loaded == JsonLoads(JsonSpan(content))[1]
             data   == IF HasRequiredFields(loaded) THEN loaded
                       ELSE fix_incomplete_ai_response(loaded)
         IN  IF build_ai_response_html(data) = "raise"
             THEN OnParseError(content)
             ELSE Some(Reply(SummaryText(data), build_ai_response_html(data),
                             "Medium", "structured"))
    ELSE NaturalText(content)

ParseInit ==
    fn \in {[content |-> c, done |-> FALSE, ret |-> None] : c \in Contents}

\* One call of _parse_ai_response_enhanced(content, ...)
ParseResponse ==
    /\ ~fn.done
    /\ fn' = [fn EXCEPT !.done = TRUE, !.ret = ParseAiResponseEnhanced(fn.content)]
    /\ FnFrame

-----------------------------------------------------------------------------
(* The destination searches of BaseAIEngine over a small catalog:          *)
(* __init__, _search_destinations, _search_destinations_enhanced and       *)
(* _fuzzy_search_destinations.  A destination is a dict with the optional  *)
(* keys name, city, description and english_name: a record whose fields    *)
(* are None (key missing) or Some(string).  The texts are written with the *)
(* letters "a", "b", "c" and the space "sp", so that every character but   *)
(* the space is a word character.                                          *)
(*                                                                         *)
(* The scores are Python floats.  The model computes each score as an      *)
(* exact fraction and carries the rounding of the float arithmetic beside  *)
(* it: err = -1, 0 or 1 says whether the float lies below, on or above the *)
(* exact value.  The rounding is far smaller than the gap between two      *)
(* different exact scores of texts this short, so a comparison of floats   *)
(* is the comparison of the exact values, and of err when these are equal. *)
(* Which rounding a given input gets is left open: the real arithmetic     *)
(* gives 0.55 for the query "cbcca" on the name "cbcc ba" and              *)
(* 0.5499999999999999 for "b aa" on "ac aa", both exactly 11/20.           *)

MaxCatalog == 2

Dest(name, city, description, english_name) ==
    [name |-> name, city |-> city, description |-> description,
     english_name |-> english_name]

\* The destinations the catalogs are made of.
DestPool ==
    { Dest(Some(<<"a", "b">>), None, None, None),
      Dest(Some(<<"a", "b", "sp", "c">>), Some(<<>>), None, None),
      Dest(Some(<<"c", "sp", "a", "b">>), None, Some(<<>>), None),
      Dest(Some(<<"c", "b", "c", "c", "sp", "b", "a">>), None, None, None),
      Dest(Some(<<"b">>), Some(<<"c">>), None, Some(<<"a">>)),
      Dest(Some(<<>>), None, None, None),
      Dest(None, Some(<<"a", "b">>), Some(<<"c">>), None) }

Catalogs == UNION {[1..n -> DestPool] : n \in 0..MaxCatalog}

SearchQueries ==
    { <<>>, <<"a", "b">>, <<"c", "b", "c", "c", "a">>, <<"c">>, <<"sp", "a", "b", "sp">> }

\* province_guides.PROVINCE_SYNONYMS: the one province "c" with one synonym.
PROVINCE_SYNONYMS == << << <<"c">>, << <<"c", "a">> >> >> >>

\* item.get(key, "")
Get(item, key) == IF item[key] = None THEN <<>> ELSE item[key][1]

\* " ".join(parts)
RECURSIVE Join(_)
Join(parts) ==
    IF parts = <<>> THEN <<>>
    ELSE IF Len(parts) = 1 THEN parts[1]
    ELSE parts[1] \o <<"sp">> \o Join(Tail(parts))

NonEmpty(p) == p # <<>>

\* token_set(text): the words of text.lower()
token_set(text) ==
    LET t == LowerStr(text)
        word(i, j) == /\ i <= j
                      /\ \A k \in i..j : ~IsSpace(t[k])
                      /\ i = 1 \/ IsSpace(t[i - 1])
                      /\ j = Len(t) \/ IsSpace(t[j + 1])
    IN  {SubSeq(t, p[1], p[2]) : p \in {q \in (1..Len(t)) \X (1..Len(t)) : word(q[1], q[2])}}

\* The length of the common run of a from index i and b from index j
\* (indices from 0) inside a[:ahi] and b[:bhi].
RECURSIVE RunLen(_, _, _, _, _, _)
RunLen(a, b, i, j, ahi, bhi) ==
    IF i < ahi /\ j < bhi /\ a[i + 1] = b[j + 1]
    THEN 1 + RunLen(a, b, i + 1, j + 1, ahi, bhi)
    ELSE 0

\* difflib.SequenceMatcher.find_longest_match without junk: of the longest
\* matching blocks the one that starts earliest in a, and of these the one
\* that starts earliest in b.
find_longest_match(a, b, alo, ahi, blo, bhi) ==
    LET cands   == (alo..(ahi - 1)) \X (blo..(bhi - 1))
        size(c) == RunLen(a, b, c[1], c[2], ahi, bhi)
        best    == CHOOSE c \in cands : \A d \in cands :
                       \/ size(c) > size(d)
                       \/ /\ size(c) = size(d)
                          /\ c[1] < d[1] \/ (c[1] = d[1] /\ c[2] <= d[2])
    IN  IF cands = {} THEN <<alo, blo, 0>> ELSE <<best[1], best[2], size(best)>>

\* The total size of SequenceMatcher.get_matching_blocks(): the longest
\* match, then the same to its left and to its right.
RECURSIVE MatchedSize(_, _, _, _, _, _)
MatchedSize(a, b, alo, ahi, blo, bhi) ==
    LET m == find_longest_match(a, b, alo, ahi, blo, bhi)
    IN  IF m[3] = 0 THEN 0
        ELSE m[3] + MatchedSize(a, b, alo, m[1], blo, m[2])
                  + MatchedSize(a, b, m[1] + m[3], ahi, m[2] + m[3], bhi)

\* SequenceMatcher(None, a, b).ratio(): 2.0 * matches / length, 1.0 when
\* both are empty
ratio(a, b) ==
    LET length == Len(a) + Len(b)
    IN  IF length = 0 THEN [num |-> 1, den |-> 1]
        ELSE [num |-> 2 * MatchedSize(a, b, 0, Len(a), 0, Len(b)), den |-> length]

\* parts of the haystack of one destination
HaystackParts(item) ==
    LET city == Get(item, "city")
        syns == IF DictHas(PROVINCE_SYNONYMS, city)
                THEN DictGet(PROVINCE_SYNONYMS, city) ELSE <<>>
    IN  <<Get(item, "name"), city, Get(item, "description")>>
        \o (IF Get(item, "english_name") # <<>> THEN <<Get(item, "english_name")>> ELSE <<>>)
        \o syns

\* haystack = " ".join([p for p in parts if p])
Haystack(item) == Join(SelectSeq(HaystackParts(item), NonEmpty))

\* token_jaccard = len(inter) / len(union), union = {""} when empty
TokenJaccard(q_tokens, hay_tokens) ==
    LET union == q_tokens \cup hay_tokens
    IN  [num |-> Cardinality(q_tokens \cap hay_tokens),
         den |-> IF union = {} THEN 1 ELSE Cardinality(union)]

\* best_partial: the best ratio of the lower-cased query and one token
BestPartial(query, hay_tokens) ==
    LET sims == {ratio(LowerStr(query), tk) : tk \in hay_tokens}
    IN  IF sims = {} THEN ZeroSim
        ELSE CHOOSE s \in sims : \A t \in sims : SimGE(s, t)

\* score = (0.5 * seq_score) + (0.35 * token_jaccard) + (0.15 * best_partial)
\* as a fraction over 20
CombinedScore(query, item) ==
    LET haystack == Haystack(item)
        s == ratio(normalize(query), normalize(haystack))
        j == TokenJaccard(token_set(query), token_set(haystack))
        p == BestPartial(query, token_set(haystack))
    IN  [num |-> 10 * s.num * j.den * p.den + 7 * j.num * s.den * p.den
                 + 3 * p.num * s.den * j.den,
         den |-> 20 * s.den * j.den * p.den]

\* cutoff: float = 0.55
DefaultCutoff == [num |-> 11, den |-> 20, err |-> 0]

\* The float of an exact value and its rounding.
Float(x, err) == [num |-> x.num, den |-> x.den, err |-> err]

\* x > y on floats
FloatGT(x, y) ==
    \/ x.num * y.den > y.num * x.den
    \/ x.num * y.den = y.num * x.den /\ x.err > y.err

\* score > cutoff
ScoreExceeds(score, cutoff) == FloatGT(score, cutoff)

\* score >= cutoff
ScoreReaches(score, cutoff) == ~FloatGT(cutoff, score)

\* The destinations that get a score: if not hay: continue
Scorable(destinations) ==
    {i \in DOMAIN destinations : normalize(Haystack(destinations[i])) # <<>>}

\* The floats score of the loop, by the index of the destination.
FuzzyScores(destinations, query, err) ==
    [i \in Scorable(destinations) |->
        Float(CombinedScore(query, destinations[i]), err[i])]

\* scored, before the sort: the indices of the destinations kept, in
\* catalog order
FuzzyKept(destinations, scores, cutoff) ==
    SelectSeq([i \in DOMAIN destinations |-> i],
              LAMBDA i : i \in DOMAIN scores /\ ScoreReaches(scores[i], cutoff))

\* One step of the stable descending sort: e goes behind every entry whose
\* key is not below its own.
InsertDescending(sorted, e, key) ==
    LET ahead == {k \in DOMAIN sorted : ~FloatGT(key[e], key[sorted[k]])}
        n     == Cardinality(ahead)
    IN  SubSeq(sorted, 1, n) \o <<e>> \o SubSeq(sorted, n + 1, Len(sorted))

\* scored.sort(key=lambda x: x[1], reverse=True)
RECURSIVE SortDescending(_, _)
SortDescending(indices, key) ==
    IF indices = <<>> THEN <<>>
    ELSE InsertDescending(SortDescending(SubSeq(indices, 1, Len(indices) - 1), key),
                          indices[Len(indices)], key)

\* _fuzzy_search_destinations(query, cutoff=cutoff): the indices of the
\* destinations returned, in the order of the result
fuzzy_search_destinations(destinations, query, cutoff, err) ==
    LET scores == FuzzyScores(destinations, query, err)
    IN  SortDescending(FuzzyKept(destinations, scores, cutoff), scores)

\* item["name"] raises KeyError when the key is missing
NameMissing(item) == item.name = None

\* combined = " ".join([item["name"], item.get("city", ""), item.get("description", "")])
Combined(item) == Join(<<Get(item, "name"), Get(item, "city"), Get(item, "description")>>)

\* normalized in haystack or normalized_no_tone in haystack_no_tone
BasicMatch(query, item) ==
    \/ IsSubstring(Strip(LowerStr(query)), LowerStr(Combined(item)))
    \/ IsSubstring(normalize(query), normalize(Combined(item)))

AllIndices(destinations) == [i \in DOMAIN destinations |-> i]

\* The outcome of a search: the indices of the destinations returned, or
\* the KeyError raised.
Returned(order) == [raised |-> FALSE, order |-> order]

KeyError == [raised |-> TRUE, order |-> <<>>]

\* _search_destinations(query)
search_destinations(destinations, query) ==
    IF Strip(LowerStr(query)) = <<>> THEN Returned(AllIndices(destinations))
    ELSE IF \E i \in DOMAIN destinations : NameMissing(destinations[i]) THEN KeyError
    ELSE Returned(SelectSeq(AllIndices(destinations),
                            LAMBDA i : BasicMatch(query, destinations[i])))

\* str.split(): the words of s between runs of whitespace, in order
RECURSIVE Split(_)
Split(s) ==
    LET t == LStrip(s)
        n == IF \E k \in DOMAIN t : IsSpace(t[k])
             THEN (CHOOSE k \in DOMAIN t : IsSpace(t[k]) /\ \A m \in 1..(k - 1) : ~IsSpace(t[m])) - 1
             ELSE Len(t)
    IN  IF t = <<>> THEN <<>>
        ELSE <<SubSeq(t, 1, n)>> \o Split(SubSeq(t, n + 1, Len(t)))

\* The keyword presence score of _search_destinations_enhanced in halves:
\* 1.0 for a word longer than 2 found in the haystack, 0.5 when only its
\* normalized form is found.
RECURSIVE WordScore(_, _)
WordScore(words, item) ==
    IF words = <<>> THEN 0
    ELSE (IF Len(Head(words)) > 2
          THEN IF IsSubstring(Head(words), LowerStr(Combined(item))) THEN 2
               ELSE IF IsSubstring(normalize(Head(words)), normalize(Combined(item)))
                    THEN 1 ELSE 0
          ELSE 0)
         + WordScore(Tail(words), item)

\* The exact, substring or no-tone match score in halves: 10.0, 5.0, 3.0
MatchScore(query, item) ==
    LET normalized == Strip(LowerStr(query))
        haystack   == LowerStr(Combined(item))
    IN  IF normalized = haystack THEN 20
        ELSE IF IsSubstring(normalized, haystack) THEN 10
        ELSE IF IsSubstring(normalize(query), normalize(Combined(item))) THEN 6
        ELSE 0

\* score of one destination in _search_destinations_enhanced:
\* match score + similarity * 2.0 + keyword presence score
EnhancedScore(query, item) ==
    LET normalized == Strip(LowerStr(query))
        similarity == ratio(normalized, LowerStr(Combined(item)))
        halves     == MatchScore(query, item) + WordScore(Split(normalized), item)
    IN  [num |-> halves * similarity.den + 4 * similarity.num,
         den |-> 2 * similarity.den]

\* if score > 0.5
MinimumThreshold == [num |-> 1, den |-> 2, err |-> 0]

\* scored_results[:10]
top_matches == 10

EnhancedScores(destinations, query, err) ==
    [i \in DOMAIN destinations |->
        Float(EnhancedScore(query, destinations[i]), err[i])]

\* relevance_score > 0.7, relevance in tenths
good_relevance == 7

\* _search_destinations_enhanced(query, relevance_score)
search_destinations_enhanced(destinations, query, relevance_score, err) ==
    LET basic_results == search_destinations(destinations, query)
        scores == EnhancedScores(destinations, query, err)
        kept   == SelectSeq(AllIndices(destinations),
                            LAMBDA i : FloatGT(scores[i], MinimumThreshold))
        sorted == SortDescending(kept, scores)
    IN  IF basic_results.raised THEN KeyError
        ELSE IF basic_results.order # <<>> /\ relevance_score > good_relevance
        THEN basic_results
        ELSE IF \E i \in DOMAIN destinations : NameMissing(destinations[i]) THEN KeyError
        ELSE Returned(SubSeq(sorted, 1, Min2(top_matches, Len(sorted))))

SearchRelevances == {2, 8}

Roundings == {-1, 0, 1}

SearchInit ==
    fn \in {[destinations |-> d, loaded |-> d, query |-> q, relevance_score |-> r,
             phase |-> "new", op |-> "none", raised |-> FALSE, order |-> <<>>,
             scores |-> <<>>] :
                d \in Catalogs, q \in SearchQueries, r \in SearchRelevances}

\* BaseAIEngine.__init__: self._normalized_dest_names =
\* [self._normalize(item["name"]) for item in destinations]
Construct ==
    /\ fn.phase = "new"
    /\ IF \E i \in DOMAIN fn.destinations : NameMissing(fn.destinations[i])
       THEN fn' = [fn EXCEPT !.phase = "failed", !.op = "init", !.raised = TRUE]
       ELSE fn' = [fn EXCEPT !.phase = "ready"]
    /\ FnFrame

\* One call of _search_destinations(query) on the engine.
SearchDestinations ==
    /\ fn.phase = "ready"
    /\ LET result == search_destinations(fn.destinations, fn.query)
       IN  fn' = [fn EXCEPT !.phase = "done", !.op = "basic",
                            !.raised = result.raised, !.order = result.order]
    /\ FnFrame

\* One call of _search_destinations_enhanced(query, relevance_score).
SearchDestinationsEnhanced ==
    /\ fn.phase = "ready"
    /\ \E err \in [DOMAIN fn.destinations -> Roundings] :
          LET result == search_destinations_enhanced(fn.destinations, fn.query,
                                                     fn.relevance_score, err)
          IN  fn' = [fn EXCEPT !.phase = "done", !.op = "enhanced",
                               !.raised = result.raised, !.order = result.order,
                               !.scores = EnhancedScores(fn.destinations, fn.query, err)]
    /\ FnFrame

\* One call of _fuzzy_search_destinations(query) with the default cutoff.
FuzzySearchDestinations ==
    /\ fn.phase = "ready"
    /\ \E err \in [DOMAIN fn.destinations -> Roundings] :
          fn' = [fn EXCEPT !.phase = "done", !.op = "fuzzy",
                           !.order = fuzzy_search_destinations(fn.destinations, fn.query,
                                                               DefaultCutoff, err),
                           !.scores = FuzzyScores(fn.destinations, fn.query, err)]
    /\ FnFrame

-----------------------------------------------------------------------------
(* The conversation memory of one engine: _update_conversation_memory and  *)
(* Step 0 of build_reply, for requests handled one after another.  A text  *)
(* is its words and its length; the texts are a long greeting without     *)
(* topics and a short question that names a topic and a preference.  The   *)
(* timestamp of a turn is left out: nothing reads it.                      *)

\* The number of turns appended in a behaviour.
MaxTurns == 12

\* if len(self._role_memory["conversation_context"]) > 10: ... [-10:]
context_limit == 10

\* user_input[:200]
input_limit == 200

\* ai_response[:100]
summary_limit == 100

\* topics[-5:]
topics_kept == 5

\* self._role_memory["last_topics"][-10:]
last_topics_limit == 10

Text(words, len) == [words |-> words, len |-> len]

NotAString == [words |-> "None", len |-> 0]

MemoryTexts == {Text("hello", 250), Text("cheap hotel", 11)}

AiTexts == {Text("answer", 150)}

\* text[:n]
Truncate(text, n) == [text EXCEPT !.len = Min2(text.len, n)]

\* s[-n:]
LastN(s, n) == IF Len(s) > n THEN SubSeq(s, Len(s) - n + 1, Len(s)) ELSE s

\* _extract_topics(text)
extract_topics(text) ==
    IF text.words = "cheap hotel" THEN <<"activity:accommodation">> ELSE <<>>

\* _extract_preferences(text)
extract_preferences(text) ==
    IF text.words = "cheap hotel" THEN <<<<"budget_style", "budget">>>> ELSE <<>>

\* dict.update(other)
RECURSIVE DictUpdate(_, _)
DictUpdate(d, other) ==
    IF other = <<>> THEN d
    ELSE DictUpdate(DictSet(d, other[1][1], other[1][2]), Tail(other))

Turn(user_input, ai_response) ==
    [user_input |-> Truncate(user_input, input_limit),
     ai_response_summary |-> Truncate(ai_response, summary_limit),
     topics |-> extract_topics(user_input)]

\* [:10] in place of [-10:]
KeepOldest(context) ==
    IF Len(context) > context_limit THEN SubSeq(context, 1, context_limit) ELSE context

\* The window after the append, cut to the turns kept: [-10:]

KeepRecent(context) ==
    IF Len(context) > context_limit THEN LastN(context, context_limit) ELSE context

\* _update_conversation_memory(user_input, ai_response) on the memory m
update_conversation_memory(m, user_input, ai_response) ==
    LET topics == extract_topics(user_input)
        turn   == Turn(user_input, ai_response)
    IN  [m EXCEPT
            !.conversation_context = KeepRecent(Append(m.conversation_context, turn)),
            !.user_preferences = DictUpdate(m.user_preferences,
                                            extract_preferences(user_input)),
            !.last_topics = IF topics # <<>> THEN LastN(topics, topics_kept)
                            ELSE m.last_topics,
            !.current_topic = IF topics # <<>> THEN Some(topics[Len(topics)])
                              ELSE m.current_topic,
            !.context_depth = IF topics # <<>> THEN m.context_depth + 1
                              ELSE m.context_depth,
            !.log = Append(m.log, turn)]

\* __init__: the role memory and the conversation state of a new engine; log
\* is the list of all turns ever appended, user_text the text of the request
\* that is running.
MemoryInit ==
    fn = [conversation_context |-> <<>>, user_preferences |-> <<>>,
          last_topics |-> <<>>, current_topic |-> None, context_depth |-> 0,
          log |-> <<>>, user_text |-> None]

\* Step 0 of build_reply on a string: the memory update, the preferences
\* and the topics.
StepZero(user_text) ==
    /\ fn.user_text = None
    /\ Len(fn.log) < MaxTurns
    /\ LET m == update_conversation_memory(fn, user_text, Text("", 0))
       IN  fn' = [m EXCEPT
                    !.user_preferences = DictUpdate(m.user_preferences,
                                                    extract_preferences(user_text)),
                    !.last_topics = LastN(m.last_topics \o extract_topics(user_text),
                                          last_topics_limit),
                    !.user_text = Some(user_text)]
    /\ FnFrame

\* Step 0 of build_reply on a value that is no string: text.lower() raises
\* inside _extract_topics before anything is written, and the except block
\* of Step 0 swallows it.
StepZeroRaises ==
    /\ fn.user_text = None
    /\ fn' = [fn EXCEPT !.user_text = Some(NotAString)]
    /\ FnFrame

\* Step 7 of build_reply after a successful generation:
\* self._update_conversation_memory(user_text, text_str)
UpdateAfterGeneration(text_str) ==
    /\ fn.user_text # None
    /\ fn.user_text # Some(NotAString)
    /\ Len(fn.log) < MaxTurns
    /\ fn' = [update_conversation_memory(fn, fn.user_text[1], text_str)
                 EXCEPT !.user_text = None]
    /\ FnFrame

\* build_reply returns on any other path.
ReplyReturns ==
    /\ fn.user_text # None
    /\ fn' = [fn EXCEPT !.user_text = None]
    /\ FnFrame

-----------------------------------------------------------------------------
(* SimpleChatbot.chat: the route of one message and the text of its reply. *)
(* A text is a sequence of tokens: a fixed message is one token, the       *)
(* content of a completion is "ai_text" with or without whitespace "sp"    *)
(* around it, and str(e) of a raised exception is the token                *)
(* "exception_text".                                                       *)

\* The number of messages one chatbot answers in a behaviour.
MaxChats == 4

\* The fixed messages of simple_chatbot.py.
WELCOME_MESSAGE == <<"WELCOME_MESSAGE">>

NotReadyMessage == <<"ai_not_ready">>

CannotAnswerMessage == <<"cannot_answer">>

\* f"... เกิดข้อผิดพลาด: {str(e)}"
ErrorMessage(e) == <<"an_error_occurred">> \o e

\* What a message is about: _is_about_samutsongkhram, _is_general_question
ChatMessages == [about : BOOLEAN, general : BOOLEAN]

\* What chat.completions.create does: it raises, or returns a completion
\* whose content is None, empty, whitespace or a text.
Completions ==
    { [raised |-> TRUE, content |-> None, e |-> <<"exception_text">>],
      [raised |-> FALSE, content |-> None, e |-> <<>>],
      [raised |-> FALSE, content |-> Some(<<>>), e |-> <<>>],
      [raised |-> FALSE, content |-> Some(<<"sp">>), e |-> <<>>],
      [raised |-> FALSE, content |-> Some(<<"sp", "ai_text", "sp">>), e |-> <<>>] }

\* response.choices[0].message.content or "...", then .strip()
AiText(completion) ==
    IF completion.content = None \/ completion.content = Some(<<>>)
    THEN Strip(CannotAnswerMessage)
    ELSE Strip(completion.content[1])

\* __init__ and _setup_openai: the client is there when the package and the
\* API key are.
SimpleInit ==
    fn \in {[openai_client |-> c, chats |-> 0, pc |-> "idle", message |-> None,
             reply |-> None, failure |-> "none"] : c \in BOOLEAN}

\* return {"text": text, "html": ""}
SimpleReturn(text, failure) ==
    [fn EXCEPT !.pc = "idle", !.reply = Some(text), !.failure = failure]

\* chat(user_message): Steps 1 to 3
Chat(user_message) ==
    /\ fn.pc = "idle"
    /\ fn.chats < MaxChats
    /\ LET f == [fn EXCEPT !.chats = fn.chats + 1, !.message = Some(user_message),
                           !.reply = None, !.failure = "none"]
       IN  IF user_message.about THEN fn' = [f EXCEPT !.pc = "handle"]
           ELSE IF user_message.general THEN fn' = [f EXCEPT !.pc = "redirect"]
           ELSE fn' = [f EXCEPT !.pc = "idle", !.reply = Some(WELCOME_MESSAGE)]
    /\ FnFrame

\* _handle_samutsongkhram_question up to the call of the client
HandleSamutsongkhramQuestion ==
    /\ fn.pc = "handle"
    /\ IF ~fn.openai_client
       THEN fn' = SimpleReturn(NotReadyMessage, "no_client")
       ELSE fn' = [fn EXCEPT !.pc = "handle_create"]
    /\ FnFrame

\* _handle_samutsongkhram_question: the try block and its except
HandleCreate(completion) ==
    /\ fn.pc = "handle_create"
    /\ IF completion.raised
       THEN fn' = SimpleReturn(ErrorMessage(completion.e), "exception")
       ELSE fn' = SimpleReturn(AiText(completion),
                               IF completion.content = None THEN "no_content" ELSE "none")
    /\ FnFrame

\* _redirect_to_samutsongkhram up to the call of the client
RedirectToSamutsongkhram ==
    /\ fn.pc = "redirect"
    /\ IF ~fn.openai_client
       THEN fn' = SimpleReturn(WELCOME_MESSAGE, "no_client")
       ELSE fn' = [fn EXCEPT !.pc = "redirect_create"]
    /\ FnFrame

\* _redirect_to_samutsongkhram: the try block and its except
RedirectCreate(completion) ==
    /\ fn.pc = "redirect_create"
    /\ IF completion.raised
       THEN fn' = SimpleReturn(WELCOME_MESSAGE, "exception")
       ELSE fn' = SimpleReturn(AiText(completion),
                               IF completion.content = None THEN "no_content" ELSE "none")
    /\ FnFrame

-----------------------------------------------------------------------------
(* TravelChatbot.get_response and get_chat_response (chat.py): the replay  *)
(* of a user's recent request.  Requests are handled one after another; a  *)
(* payload is the dict get_response builds, held by the fields a replay    *)
(* and get_chat_response read or write.  The window is the source's 15     *)
(* seconds scaled down; the code only compares against it.                 *)

DUPLICATE_WINDOW_SECONDS == 2
DedupMaxTime == 3
MaxDedupRequests == 3

UserIds == {"u1", "u2"}

\* user_message: "hi" stands for a greeting word.
DedupMessages ==
    {<<"sp">>, <<"a", "sp", "b">>, <<"sp", "A", "sp", "sp", "b">>, <<"hi">>}

\* re.sub(r"\s+", " ", text): every run of whitespace becomes one space.
RECURSIVE CollapseWhitespace(_)
CollapseWhitespace(s) ==
    IF s = <<>> THEN <<>>
    ELSE IF IsSpace(Head(s)) /\ Tail(s) # <<>> /\ IsSpace(Head(Tail(s)))
         THEN CollapseWhitespace(Tail(s))
         ELSE <<Head(s)>> \o CollapseWhitespace(Tail(s))

\* TravelChatbot._normalized_query_key
normalized_query_key(text) == LowerStr(CollapseWhitespace(Strip(text)))

\* dedup_key = self._normalized_query_key(trimmed_query) if trimmed_query else ""
DedupKey(user_message) ==
    LET trimmed_query == Strip(user_message) IN
    IF trimmed_query # <<>> THEN normalized_query_key(trimmed_query) ELSE <<>>

\* The payload get_response builds for request n of user_id: its response
\* names the request it was computed for; duplicate FALSE and model None
\* stand for an absent key.
DedupPayload(user_id, n, source) ==
    [response |-> <<user_id, n>>, source |-> source,
     duplicate |-> FALSE, model |-> None, character |-> None]

\* The replay test with a strict comparison.
InWindowStrict(entry, t) == t - entry.timestamp < DUPLICATE_WINDOW_SECONDS

\* (time.time() - entry["timestamp"]) <= DUPLICATE_WINDOW_SECONDS
InWindow(entry, t) == t - entry.timestamp <= DUPLICATE_WINDOW_SECONDS

\* TravelChatbot._replay_duplicate_response at time t: None, or a copy of the
\* stored payload with duplicate set and "_cached" added to its source.
replay_duplicate_response(recent, user_id, key, t) ==
    IF key = <<>> THEN None
    ELSE IF recent[user_id] = None THEN None
    ELSE LET entry == recent[user_id][1] IN
         IF entry.query = key /\ InWindow(entry, t)
         THEN Some([entry.result EXCEPT !.duplicate = TRUE,
                                        !.source = Append(entry.result.source, "_cached")])
         ELSE None

\* TravelChatbot._cache_response(user_id, key, payload) at time t
cache_recent(recent, user_id, key, payload, t) ==
    IF key = <<>> THEN recent
    ELSE [recent EXCEPT ![user_id] =
              Some([query |-> key, timestamp |-> t, result |-> payload])]

\* What the part of get_response after the replay test comes to: the source
\* of the payload it finalizes, whether _match_travel_data ran and whether
\* gpt_service.generate_response was called.
DedupPaths ==
    {[source |-> <<"greeting">>, searched |-> FALSE, generated |-> FALSE],
     [source |-> <<"out_of_scope">>, searched |-> TRUE, generated |-> FALSE],
     [source |-> <<"empty_query">>, searched |-> TRUE, generated |-> FALSE],
     [source |-> <<"openai">>, searched |-> TRUE, generated |-> TRUE],
     [source |-> <<"gpt-4o">>, searched |-> TRUE, generated |-> TRUE],
     [source |-> <<"simple_fallback">>, searched |-> TRUE, generated |-> TRUE],
     [source |-> <<"simple">>, searched |-> TRUE, generated |-> FALSE]}

\* any(word in normalized_query for word in greetings_th + greetings_en)
IsGreeting(user_message) == "hi" \in Range(LowerStr(Strip(user_message)))

\* The paths get_response can take for user_message.
PathsOf(user_message) ==
    IF Strip(user_message) # <<>> /\ IsGreeting(user_message)
    THEN {p \in DedupPaths : p.source = <<"greeting">>}
    ELSE IF Strip(user_message) = <<>>
    THEN {p \in DedupPaths : p.source = <<"empty_query">>}
    ELSE {p \in DedupPaths : p.source \notin {<<"greeting">>, <<"empty_query">>}}

NoCall ==
    [kind |-> "none", user_id |-> "u1", key |-> <<>>, ret |-> None, result |-> None,
     at |-> 0, searched |-> FALSE, generated |-> FALSE]

\* TravelChatbot.__init__: self._recent_requests = {}.  finalized is history:
\* for each user the key and time of the latest finalize_response call.
DedupInit ==
    fn = [recent |-> [u \in UserIds |-> None], clock |-> 0, n |-> 0,
          call |-> NoCall,
          finalized |-> [u \in UserIds |-> None],
          keyed |-> [u \in UserIds |-> None]]

\* get_response(user_message, user_id) as a record: the payload returned,
\* _recent_requests afterwards and the call's history.
get_response(user_message, user_id, path) ==
    LET key == DedupKey(user_message)
        cached_payload == replay_duplicate_response(fn.recent, user_id, key, fn.clock)
        payload == DedupPayload(user_id, fn.n + 1, path.source)
    IN  IF cached_payload # None
        THEN [ret |-> cached_payload[1], recent |-> fn.recent, kind |-> "replay",
              key |-> key, searched |-> FALSE, generated |-> FALSE]
        ELSE [ret |-> payload,
              recent |-> cache_recent(fn.recent, user_id, key, payload, fn.clock),
              kind |-> "computed", key |-> key,
              searched |-> path.searched, generated |-> path.generated]

\* The history after the call r of user_id whose caller was handed result.
DedupHistory(r, user_id, result) ==
    LET mark == Some([query |-> r.key, timestamp |-> fn.clock]) IN
    [fn EXCEPT !.n = fn.n + 1,
               !.call = [kind |-> r.kind, user_id |-> user_id, key |-> r.key,
                         ret |-> Some(r.ret), result |-> Some(result),
                         at |-> fn.clock,
                         searched |-> r.searched, generated |-> r.generated],
               !.finalized = IF r.kind = "computed"
                             THEN [fn.finalized EXCEPT ![user_id] = mark]
                             ELSE fn.finalized,
               !.keyed = IF r.kind = "computed" /\ r.key # <<>>
                         THEN [fn.keyed EXCEPT ![user_id] = mark]
                         ELSE fn.keyed]

\* chat_with_bot(message, user_id): result = _CHATBOT.get_response(...)
GetResponse(user_id, user_message, path) ==
    /\ fn.n < MaxDedupRequests
    /\ path \in PathsOf(user_message)
    /\ LET r == get_response(user_message, user_id, path) IN
       fn' = [DedupHistory(r, user_id, r.ret) EXCEPT !.recent = r.recent]
    /\ FnFrame

\* The qualifiers get_chat_response writes into result with a connected
\* database.
Qualified(result) ==
    [result EXCEPT !.model = Some("gpt-4o"), !.character = Some("NongPlaToo"),
                   !.source = IF "openai" \in Range(result.source) THEN <<"data+ai">>
                              ELSE IF result.source = <<"simple">> THEN <<"data+simple">>
                              ELSE result.source]

\* get_chat_response(message, user_id) with a connected database: the dict
\* it qualifies is the one get_response returned, which after a computed
\* answer with a key is the dict held in _recent_requests.
GetChatResponse(user_id, user_message, path) ==
    /\ fn.n < MaxDedupRequests
    /\ path \in PathsOf(user_message)
    /\ LET r == get_response(user_message, user_id, path)
           result == Qualified(r.ret)
           h == DedupHistory(r, user_id, result)
       IN  fn' = [h EXCEPT !.recent =
                      IF r.kind = "computed" /\ r.key # <<>>
                      THEN [r.recent EXCEPT ![user_id] =
                                Some([r.recent[user_id][1] EXCEPT !.result = result])]
                      ELSE r.recent]
    /\ FnFrame

\* time.time() moves on.
DedupTick ==
    /\ fn.clock < DedupMaxTime
    /\ fn' = [fn EXCEPT !.clock = fn.clock + 1]
    /\ FnFrame

-----------------------------------------------------------------------------
(* MessageStore (messages.py): add, list, clear and count on a deque with  *)
(* maxlen = limit.  The timestamp of an entry is the number of the add     *)
(* that made it.                                                           *)

MaxLimit == 3
MaxAdds == 5

Roles == {<<>>, <<"sp">>, <<"a">>, <<"sp", "a">>}

MessageTexts == {<<"sp", "sp">>, <<"b">>, <<"b", "sp">>}

Htmls == {None, Some(<<"sp">>), Some(<<"c", "sp">>)}

\* MessageStore.__init__(limit) with limit > 0
MessageStoreInit ==
    fn \in {[messages |-> <<>>, limit |-> l, adds |-> 0,
             op |-> [kind |-> "none", raised |-> FALSE, ret |-> None]] : l \in 1..MaxLimit}

\* The entry add builds; html is kept when it is not blank.
Entry(role, text, html, timestamp) ==
    [id |-> timestamp, role |-> Strip(role), text |-> Strip(text), createdAt |-> timestamp,
     html |-> IF html # None /\ Strip(html[1]) # <<>> THEN Some(Strip(html[1])) ELSE None]

\* An append that never drops.
list_append(messages, entry, maxlen) == Append(messages, entry)

\* deque(maxlen=limit).append(entry)
deque_append(messages, entry, maxlen) ==
    IF Len(messages) = maxlen THEN Append(Tail(messages), entry)
    ELSE Append(messages, entry)

\* MessageStore.add(role, text, html=html)
Add(role, text, html) ==
    /\ fn.adds < MaxAdds
    /\ IF Strip(role) = <<>> \/ Strip(text) = <<>>
       THEN fn' = [fn EXCEPT !.adds = fn.adds + 1,
                             !.op = [kind |-> "add", raised |-> TRUE, ret |-> None]]
       ELSE LET entry == Entry(role, text, html, fn.adds + 1) IN
            fn' = [fn EXCEPT !.adds = fn.adds + 1,
                             !.messages = deque_append(fn.messages, entry, fn.limit),
                             !.op = [kind |-> "add", raised |-> FALSE, ret |-> Some(entry)]]
    /\ FnFrame

\* MessageStore.clear()
Clear ==
    /\ fn.op.kind # "clear"
    /\ fn' = [fn EXCEPT !.messages = <<>>,
                        !.op = [kind |-> "clear", raised |-> FALSE, ret |-> None]]
    /\ FnFrame

\* MessageStore.count()
Count ==
    /\ fn.op.kind # "count"
    /\ fn' = [fn EXCEPT !.op = [kind |-> "count", raised |-> FALSE,
                                ret |-> Some(Len(fn.messages))]]
    /\ FnFrame

-----------------------------------------------------------------------------
(* Specifications.                                                         *)

ConcIdle == tpc = <<>> /\ tloc = <<>>

ReplyIdle == pc = "off" /\ req = <<>> /\ ai_mode = "chat" /\ openai_client = FALSE

ScoreIdle == sc = <<>>

NormIdle == nm = <<>>

FnIdle == fn = <<>>

InitCache == CacheInit(PutKeys) /\ ConcIdle /\ ReplyIdle /\ ScoreIdle /\ NormIdle /\ FnIdle

NextCache ==
    \/ \E k \in PutKeys, resp \in PutPayloads : CachePut(k, resp)
    \/ \E k \in PutKeys : CacheGet(k)
    \/ Tick

SpecCache == InitCache /\ [][NextCache]_vars

CacheIdle == CacheInit({get_cache_key(1, "th", "chat")})

InitConc == CacheIdle /\ ConcInit /\ ReplyIdle /\ ScoreIdle /\ NormIdle /\ FnIdle

NextConc ==
    \/ \E th \in Threads, k \in PutKeys : GetEnter(th, k)
    \/ \E th \in Threads : GetInCache(th)
    \/ \E th \in Threads : GetInTimestamps(th)
    \/ \E th \in Threads : GetAge(th)
    \/ \E th \in Threads : GetReturnEntry(th)
    \/ \E th \in Threads : GetRemoveTest(th)
    \/ \E th \in Threads : GetDelCache(th)
    \/ \E th \in Threads : GetDelTimestamp(th)
    \/ \E th \in Threads, k \in PutKeys : PutEnter(th, k)
    \/ \E th \in Threads : PutLen(th)
    \/ \E th \in Threads : PutMin(th)
    \/ \E th \in Threads : PutDelCache(th)
    \/ \E th \in Threads : PutDelTimestamp(th)
    \/ \E th \in Threads : PutSetCache(th)
    \/ \E th \in Threads : PutSetTimestamp(th)
    \/ TickConc

SpecConc == InitConc /\ [][NextConc]_vars

ReplyKeys == {get_cache_key(q, l, m) : q \in ReplyQueries, l \in Langs, m \in Modes}

\* The key the history follows is one this engine can compute.
Init ==
    /\ CacheInit(ReplyKeys) /\ ReplyInit /\ ConcIdle /\ ScoreIdle /\ NormIdle /\ FnIdle
    /\ last_put.key = get_cache_key(last_put.key[1], last_put.key[2], ai_mode)

Next ==
    \/ BeginRequest
    \/ ValidateInput
    \/ \E allowed \in BOOLEAN : SamutsongkhramOnly(allowed)
    \/ CheckRelevance
    \/ \E lang \in Langs : Scope(lang)
    \/ \E b \in BOOLEAN : ProvinceGuide(b)
    \/ \E result \in SearchResults : LocalSearch(result)
    \/ \E result \in SearchResults : FuzzySearch(result)
    \/ ClientCheck
    \/ \E q \in ReplyQueries : CacheLookup(q)
    \/ \E out \in GenOutcomes : GenerateAttempt(out)
    \/ CacheStore
    \/ AppendGenerated
    \/ \E q \in ReplyQueries : FallbackLookup(q)
    \/ FinalFallback
    \/ TickReply

Spec == Init /\ [][Next]_vars

\* The cache of the specifications that run no cache operation.
CacheOff ==
    /\ response_cache = <<>> /\ cache_timestamps = <<>> /\ now = 0
    /\ last_put = <<>> /\ evicted = FALSE /\ put_log = <<>>
    /\ only_puts = TRUE /\ cache_op = NoOp

InitScore == ScoreInit /\ CacheOff /\ ConcIdle /\ ReplyIdle /\ NormIdle /\ FnIdle

NextScore == Score

SpecScore == InitScore /\ [][NextScore]_vars

InitNorm == NormInit /\ CacheOff /\ ConcIdle /\ ReplyIdle /\ ScoreIdle /\ FnIdle

NextNorm == NormalizeOnce \/ NormalizeTwice

SpecNorm == InitNorm /\ [][NextNorm]_vars

\* The state shared by the specifications of the pure functions.
PureIdle == CacheOff /\ ConcIdle /\ ReplyIdle /\ ScoreIdle /\ NormIdle

InitLev == LevInit /\ PureIdle

NextLev == Levenshtein \/ LevenshteinDistance

SpecLev == InitLev /\ [][NextLev]_vars

InitAlias == AliasInit /\ PureIdle

NextAlias == BuildProvinceAliases \/ ResolveProvince

SpecAlias == InitAlias /\ [][NextAlias]_vars

InitParse == ParseInit /\ PureIdle

NextParse == ParseResponse

SpecParse == InitParse /\ [][NextParse]_vars

InitSearch == SearchInit /\ PureIdle

NextSearch ==
    \/ Construct
    \/ SearchDestinations
    \/ SearchDestinationsEnhanced
    \/ FuzzySearchDestinations

SpecSearch == InitSearch /\ [][NextSearch]_vars

InitMemory == MemoryInit /\ PureIdle

NextMemory ==
    \/ \E user_text \in MemoryTexts : StepZero(user_text)
    \/ StepZeroRaises
    \/ \E text_str \in AiTexts : UpdateAfterGeneration(text_str)
    \/ ReplyReturns

SpecMemory == InitMemory /\ [][NextMemory]_vars

InitSimple == SimpleInit /\ PureIdle

NextSimple ==
    \/ \E user_message \in ChatMessages : Chat(user_message)
    \/ HandleSamutsongkhramQuestion
    \/ \E completion \in Completions : HandleCreate(completion)
    \/ RedirectToSamutsongkhram
    \/ \E completion \in Completions : RedirectCreate(completion)

SpecSimple == InitSimple /\ [][NextSimple]_vars

InitDedup == DedupInit /\ PureIdle

NextDedup ==
    \/ \E user_id \in UserIds, user_message \in DedupMessages, path \in DedupPaths :
           GetResponse(user_id, user_message, path)
    \/ \E user_id \in UserIds, user_message \in DedupMessages, path \in DedupPaths :
           GetChatResponse(user_id, user_message, path)
    \/ DedupTick

SpecDedup == InitDedup /\ [][NextDedup]_vars

InitMessages == MessageStoreInit /\ PureIdle

NextMessages ==
    \/ \E role \in Roles, text \in MessageTexts, html \in Htmls : Add(role, text, html)
    \/ Clear
    \/ Count

SpecMessages == InitMessages /\ [][NextMessages]_vars

-----------------------------------------------------------------------------
(* Claims.                                                                 *)

\* A get of the key the history follows has just returned.
IsGet == cache_op.kind = "get" /\ cache_op.key = last_put.key

\* C1 (as stated): a get issued once the TTL has elapsed since the key's entry
\* was inserted returns None, a get issued before the TTL elapses returns the
\* payload stored by the most recent put for that key, and nothing older than
\* the TTL is ever returned.
C1_TTL_AsStated ==
    IsGet /\ last_put.put # None =>
        LET lp == last_put.put[1] IN
        /\ now - lp.at >= cache_max_age => cache_op.ret = None
        /\ now - lp.at < cache_max_age => cache_op.ret = Some(lp.payload)

\* C1 (amended): a get issued once the TTL has elapsed since the key's most
\* recent put returns None; a get issued before the TTL elapses returns the
\* payload of that put unless a later put at capacity evicted the entry, in
\* which case it returns None; whatever a get returns is the payload of the
\* key's most recent put and is younger than the TTL.
C1_TTL ==
    IsGet =>
        /\ last_put.put = None => cache_op.ret = None
        /\ last_put.put # None =>
             LET lp == last_put.put[1] IN
             /\ now - lp.at >= cache_max_age => cache_op.ret = None
             /\ now - lp.at < cache_max_age /\ ~evicted
                    => cache_op.ret = Some(lp.payload)
             /\ evicted => cache_op.ret = None
             /\ cache_op.ret # None =>
                    /\ cache_op.ret = Some(lp.payload)
                    /\ now - lp.at < cache_max_age

\* C1 witness: a get issued exactly one TTL after the key's most recent put,
\* the entry not having been evicted, returned None.
C1_Witness ==
    /\ IsGet
    /\ last_put.put # None
    /\ now - last_put.put[1].at = cache_max_age
    /\ ~evicted
    /\ cache_op.ret = None

\* C2: from an empty cache, after max_size + 1 puts with pairwise distinct
\* keys exactly max_size entries remain and the missing one is the key put
\* first; and the cache never holds more than max_size entries.
C2_Capacity ==
    /\ DictLen(response_cache) <= cache_max_size
    /\ DictKeys(response_cache) = DictKeys(cache_timestamps)
    /\ only_puts /\ Len(put_log) = cache_max_size + 1 =>
         /\ DictLen(response_cache) = cache_max_size
         /\ DictKeys(response_cache) = Range(put_log) \ {put_log[1]}

\* C2 witness: max_size + 1 distinct keys were put and nothing else happened.
C2_Witness ==
    /\ only_puts
    /\ Len(put_log) = cache_max_size + 1
    /\ cache_op.kind = "put"

\* C4: with several requests running cache get/put concurrently on one
\* engine, in every interleaving the cache holds at most max_size entries.
C4_ConcurrentCapacity == DictLen(response_cache) <= cache_max_size

\* C5: with several requests running cache get/put concurrently, no cache
\* operation fails on a key that another request already removed, and once
\* the operations have completed the payload map and the timestamp map have
\* the same key set.
C5_ConcurrentConsistency ==
    /\ \A th \in DOMAIN tloc : tloc[th].err # "KeyError"
    /\ (\A th \in DOMAIN tpc : tpc[th] = "idle")
           => DictKeys(response_cache) = DictKeys(cache_timestamps)

\* C3: when a request reaches the cache lookup of the generation path with a
\* key whose entry was stored by an earlier request's successful generation
\* and has neither expired nor been evicted, the request is answered from
\* the cache with the stored text and calls the generation collaborator
\* zero times.
C3_CacheHitAvoidsRegeneration ==
    req.live # None =>
        /\ pc = "done"
        /\ req.outcome = "answered"
        /\ req.from_cache
        /\ req.reply = Some([text |-> req.live[1].text, html |-> req.live[1].html])
        /\ req.gen_calls = 0

\* The place of a state in the order Start, Validated, Scoped, Resolved,
\* terminal.
StateRank(state) ==
    CASE state = "Start" -> 0
      [] state = "Validated" -> 1
      [] state = "Scoped" -> 2
      [] state = "Resolved" -> 3
      [] OTHER -> 4

\* C6: the states a request enters are strictly forward in the order Start,
\* Validated, Scoped, Resolved, terminal (so none is entered twice); while
\* the request runs it has entered no terminal state; when build_reply is
\* over the last state entered is Answered or Rejected.
C6_ForwardOnly ==
    /\ \A i \in 1..(Len(req.path) - 1) :
           StateRank(req.path[i]) < StateRank(req.path[i + 1])
    /\ pc \notin {"idle", "done"} =>
           /\ req.path # <<>> /\ req.path[1] = "Start"
           /\ StateRank(req.path[Len(req.path)]) < 4
    /\ pc = "done" => req.path[Len(req.path)] \in {"Answered", "Rejected"}

\* The inputs C7 names: empty or whitespace-only, longer than the limit,
\* with unsafe markup, or spam.
InvalidAsStated(t) ==
    CleanedLen(t) = 0 \/ RawLen(t) > max_input_length \/ t.unsafe \/ t.spam

\* The same with the length taken after stripping surrounding whitespace.
InvalidStripped(t) ==
    CleanedLen(t) = 0 \/ CleanedLen(t) > max_input_length \/ t.unsafe \/ t.spam

\* build_reply returned a validation refusal and did nothing else.
RefusedByValidation ==
    /\ pc = "done"
    /\ req.outcome = "rejected"
    /\ req.path = <<"Start", "Rejected">>
    /\ req.reply # None /\ req.reply[1].text \in ValidationErrors
    /\ req.lookups = 0 /\ req.stores = 0 /\ req.gen_calls = 0
    /\ cache_op.kind = "none"

C8_QuestionMarkRefused ==
    req.only_qmark =>
        /\ req.rel < very_low_relevance
        /\ req.gen_calls = 0
        /\ pc \notin {"cache_get", "generate", "cache_put", "append", "fb_get"}
        /\ pc = "done" =>
               /\ req.outcome = "rejected"
               /\ req.reply[1].text \in {ScopeMessage(ai_mode),
                                         "SAMUTSONGKHRAM_ONLY_MESSAGE"}

\* C9: the relevance score of every text under every keyword list and every
\* destination-name list lies between 0.0 and 1.0 (0 and 10 tenths).
C9_RelevanceBounds ==
    sc.phase = "scored" => sc.score >= 0 /\ sc.score <= 10

\* C9 witness: a text whose hits add up to more than the maximum 5.0 was
\* scored, and scored 1.0.
C9_Witness ==
    /\ sc.phase = "scored"
    /\ RelevanceUnclamped(2 * Hits(sc.keywords, normalize(sc.text)),
                          4 * Hits(sc.dest_names, normalize(sc.text)),
                          Cardinality(MatchedPatterns(LowerStr(sc.text))))
           > max_possible_score
    /\ sc.score = 10

\* C10: normalizing a second time changes nothing, for _normalize of
\* chatbot.py and for _normalize of app.py, and an empty or whitespace-only
\* string normalizes to the empty string.
C10_NormalizeIdempotent ==
    /\ nm.phase = "twice" => nm.twice = nm.once /\ nm.app_twice = nm.app_once
    /\ nm.phase # "input" /\ Strip(nm.input) = <<>> =>
           nm.once = <<>> /\ nm.app_once = <<>>

\* C11: distance(a, b, max_distance) = distance(b, a, max_distance) and
\* distance(a, a, max_distance) = 0, for _levenshtein and for the unbounded
\* _levenshtein_distance.
C11_DistanceSymmetry ==
    /\ "bounded" \in fn.done => fn.ab = fn.ba /\ fn.aa = 0
    /\ "unbounded" \in fn.done => fn.u_ab = fn.u_ba /\ fn.u_aa = 0

\* C12 (as stated): when exactly one argument is the empty string the result
\* is the length of the other, whatever the bound.
C12_EmptyArgument_AsStated ==
    "bounded" \in fn.done /\ fn.a = <<>> /\ fn.b # <<>> =>
        fn.ab = Len(fn.b) /\ fn.ba = Len(fn.b)

\* C12 (amended): when exactly one argument is the empty string, the bounded
\* distance is the length of the other argument if that length is at most
\* max_distance and max_distance + 1 otherwise; the unbounded distance is
\* the length of the other argument.
C12_EmptyArgument ==
    fn.a = <<>> /\ fn.b # <<>> =>
        /\ "bounded" \in fn.done =>
               LET expected == IF Len(fn.b) <= fn.max_distance
                               THEN Len(fn.b) ELSE fn.max_distance + 1
               IN  fn.ab = expected /\ fn.ba = expected
        /\ "unbounded" \in fn.done =>
               fn.u_ab = Len(fn.b) /\ fn.u_ba = Len(fn.b)

\* C12 witness: the empty string against a string exactly max_distance long,
\* measured by both functions.
C12_Witness ==
    /\ fn.done = {"bounded", "unbounded"}
    /\ fn.a = <<>> /\ Len(fn.b) = fn.max_distance /\ fn.max_distance > 0
    /\ fn.ab = Len(fn.b)

\* C13: for every input text and every alias table built from a synonym
\* dictionary, _resolve_province returns None or a key of that dictionary;
\* with an empty alias table it always returns None.
C13_ResolveReturnsProvince ==
    fn.phase = "resolved" =>
        /\ fn.ret = None \/ fn.ret[1] \in Provinces(fn.synonyms)
        /\ fn.province_aliases = <<>> => fn.ret = None

\* C13 witness: with two provinces in the table, a text that is no province
\* name was resolved to a province in the fuzzy tier.
C13_Witness ==
    /\ fn.phase = "resolved" /\ Len(fn.synonyms) = 2
    /\ fn.tier = "fuzzy" /\ fn.ret # None
    /\ fn.text \notin Provinces(fn.synonyms)
    /\ fn.ret[1] \in Provinces(fn.synonyms)

\* C14: for every synonym dictionary with one or several provinces, every
\* canonical province name p is present as its own alias (its normalized
\* form maps to p) and _resolve_province(p) returns p.
C14_AliasReflexive ==
    fn.phase = "resolved" /\ fn.text \in Provinces(fn.synonyms) =>
        /\ DictHas(fn.province_aliases, normalize(fn.text))
        /\ DictGet(fn.province_aliases, normalize(fn.text)) = fn.text
        /\ fn.ret = Some(fn.text)

\* C15: whenever _resolve_province reaches its fuzzy tier it returns the top
\* candidate's province only if (top >= 0.8 and top - second >= 0.1) or
\* (top >= 0.7 and top - second >= 0.2); in every other case, a tie of the
\* two best included, it returns None.
C15_AmbiguityGuard ==
    fn.phase = "resolved" /\ fn.tier = "fuzzy" =>
        LET t == fn.top_sim
            s == fn.second_sim
            lead10 == 10 * (t.num * s.den - s.num * t.den)
            passes ==
                \/ 10 * t.num >= 8 * t.den /\ lead10 >= t.den * s.den
                \/ 10 * t.num >= 7 * t.den /\ lead10 >= 2 * t.den * s.den
        IN  /\ fn.ret # None => passes
            /\ fn.ret # None =>
                 fn.ret = Some(DictGet(fn.province_aliases, fn.top_alias))
            /\ ~passes => fn.ret = None
            /\ t = s => fn.ret = None

\* C15 witness: the fuzzy tier refused a top candidate of similarity 0.8
\* because the second best was closer than 0.1.
C15_Witness ==
    /\ fn.phase = "resolved" /\ fn.tier = "fuzzy" /\ fn.ret = None
    /\ 10 * fn.top_sim.num >= 8 * fn.top_sim.den
    /\ fn.second_sim.num > 0

\* The content of the call holds a span that json.loads accepts.
JsonParses ==
    HasJsonSpan(fn.content) /\ JsonLoads(JsonSpan(fn.content)) # None

\* The reply is the whole stripped content as plain text.
PlainReply ==
    /\ fn.ret[1].type # "structured"
    /\ fn.ret[1].html = "none"
    /\ fn.ret[1].text = Strip(fn.content)

C17_RetryBound ==
    /\ req.gen_calls <= max_retries
    /\ pc = "done" /\ req.gen_calls > 0 /\ req.ai = None =>
          /\ req.outcome = "answered"
          /\ req.reply = Some([text |-> FallbackText(req.rel, ai_mode), html |-> "none"])

\* The entries of dict d other than those of the keys in gone are in dict e
\* with the same values.
KeptEntries(d, e, gone) ==
    \A k \in DictKeys(d) \ gone : DictHas(e, k) /\ DictGet(e, k) = DictGet(d, k)

\* C18: a put at capacity evicts exactly one entry, one whose timestamp is
\* the smallest, and touches no other entry; a put below capacity evicts
\* nothing; a cache hit leaves payloads, timestamps and their order as they
\* were, so it changes neither the next entry to evict nor any TTL.
C18_EvictsOldest ==
    [][ LET k == cache_op'.key IN
        /\ cache_op'.kind = "put" /\ DictLen(response_cache) >= cache_max_size =>
              \E old \in DictKeys(cache_timestamps) :
                 /\ \A j \in DictKeys(cache_timestamps) :
                        DictGet(cache_timestamps, old) <= DictGet(cache_timestamps, j)
                 /\ DictKeys(response_cache') = (DictKeys(response_cache) \ {old}) \cup {k}
                 /\ DictKeys(cache_timestamps') = DictKeys(response_cache')
                 /\ KeptEntries(response_cache, response_cache', {old, k})
                 /\ KeptEntries(cache_timestamps, cache_timestamps', {old, k})
        /\ cache_op'.kind = "put" /\ DictLen(response_cache) < cache_max_size =>
              /\ DictKeys(response_cache') = DictKeys(response_cache) \cup {k}
              /\ KeptEntries(response_cache, response_cache', {k})
              /\ KeptEntries(cache_timestamps, cache_timestamps', {k})
        /\ cache_op'.kind = "get" /\ cache_op'.ret # None =>
              /\ response_cache' = response_cache
              /\ cache_timestamps' = cache_timestamps
      ]_vars

\* C18 witness: the followed key was put, a get happened, and a put of
\* another key into the full cache, at a later time, has just evicted it.
C18_Witness ==
    /\ cache_op.kind = "put" /\ cache_op.key # last_put.key
    /\ last_put.put # None /\ last_put.put[1].at < now
    /\ evicted /\ ~only_puts
    /\ ~DictHas(response_cache, last_put.key)
    /\ DictLen(response_cache) = cache_max_size

\* C19: a get on an expired entry removes that entry, payload and timestamp,
\* and no other, and returns None; a get on an unexpired or absent key
\* leaves both dicts unchanged.
C19_GetFrame ==
    [][ cache_op'.kind = "get" =>
          LET k == cache_op'.key
              expired == /\ DictHas(response_cache, k)
                         /\ now - DictGet(cache_timestamps, k) >= cache_max_age
          IN  /\ expired =>
                    /\ cache_op'.ret = None
                    /\ DictKeys(response_cache') = DictKeys(response_cache) \ {k}
                    /\ DictKeys(cache_timestamps') = DictKeys(cache_timestamps) \ {k}
                    /\ KeptEntries(response_cache, response_cache', {k})
                    /\ KeptEntries(cache_timestamps, cache_timestamps', {k})
              /\ ~expired =>
                    /\ response_cache' = response_cache
                    /\ cache_timestamps' = cache_timestamps
      ]_vars

\* C19 witness: a get on the expired entry of the followed key returned None
\* and removed it, and the one other entry is still there.
C19_Witness ==
    /\ IsGet /\ cache_op.ret = None
    /\ last_put.put # None /\ ~evicted
    /\ now - last_put.put[1].at >= cache_max_age
    /\ ~DictHas(response_cache, last_put.key)
    /\ ~DictHas(cache_timestamps, last_put.key)
    /\ DictLen(response_cache) = 1

\* The request was answered with the templated suggestions of Step 6.
FromSuggestions ==
    /\ pc = "done" /\ req.outcome = "answered"
    /\ req.reply # None /\ req.reply[1].text \in {"found_places", "did_you_mean"}

\* The request called neither the generation collaborator nor the cache.
NoGenerationNoCache ==
    req.gen_calls = 0 /\ req.lookups = 0 /\ req.stores = 0 /\ cache_op = NoOp

\* C20 (as stated): if the destination search of a request (substring tier
\* or fuzzy tier) yields at least one match, the request is Answered from
\* templated suggestions, generation is never called and the cache is
\* neither read nor written.
C20_SearchShortCircuit_AsStated ==
    /\ req.found # "none" => NoGenerationNoCache
    /\ pc = "done" /\ req.found # "none" => FromSuggestions

\* C20 (amended): the same for a search that yields at least one match the
\* Samut Songkhram filter keeps; a request is answered from suggestions in
\* no other case.
C20_SearchShortCircuit ==
    /\ req.found = "inside" => FromSuggestions /\ NoGenerationNoCache
    /\ FromSuggestions => req.found = "inside"

\* C20 witness: the substring tier found only destinations the filter
\* removes and the fuzzy tier found one it keeps; the request was answered
\* with the "did you mean" suggestions while the cache holds an entry.
C20_Witness ==
    /\ req.found = "inside" /\ pc = "done"
    /\ req.reply = Some([text |-> "did_you_mean", html |-> "html"])
    /\ req.n = 2 /\ response_cache # <<>>

\* The fuzzy search has returned.
FuzzyDone == fn.phase = "done" /\ fn.op = "fuzzy"

\* order lists every index of wanted once, by descending score, and in
\* catalog order where the scores are equal.
RankedExactly(order, wanted, scores) ==
    /\ Range(order) = wanted
    /\ Len(order) = Cardinality(wanted)
    /\ \A p, q \in DOMAIN order :
          p < q => \/ FloatGT(scores[order[p]], scores[order[q]])
                   \/ /\ ~FloatGT(scores[order[q]], scores[order[p]])
                      /\ order[p] < order[q]

\* C21 as stated: the fuzzy search returns exactly the destinations whose
\* combined score is above the cutoff 0.55, by descending score with equal
\* scores in catalog order; an empty catalog gives an empty list and the
\* catalog is not modified.
C21_FuzzyAboveCutoff_AsStated ==
    FuzzyDone =>
        /\ RankedExactly(fn.order,
                         {i \in DOMAIN fn.scores : FloatGT(fn.scores[i], DefaultCutoff)},
                         fn.scores)
        /\ fn.destinations = <<>> => fn.order = <<>>
        /\ fn.destinations = fn.loaded

\* C21 amended: the fuzzy search returns exactly the destinations with a
\* non-empty haystack whose combined score is at or above the cutoff 0.55
\* (a score equal to the cutoff is kept), by descending score with equal
\* scores in catalog order; an empty catalog gives an empty list and the
\* catalog is not modified.
C21_FuzzyAtOrAboveCutoff ==
    FuzzyDone =>
        /\ DOMAIN fn.scores = Scorable(fn.destinations)
        /\ RankedExactly(fn.order,
                         {i \in DOMAIN fn.scores : ~FloatGT(DefaultCutoff, fn.scores[i])},
                         fn.scores)
        /\ fn.destinations = <<>> => fn.order = <<>>
        /\ fn.destinations = fn.loaded

\* Two destinations whose score is the cutoff itself are returned in catalog
\* order.
C21_Witness ==
    /\ FuzzyDone
    /\ fn.order = <<1, 2>>
    /\ \A i \in {1, 2} : /\ ~FloatGT(fn.scores[i], DefaultCutoff)
                          /\ ~FloatGT(DefaultCutoff, fn.scores[i])

\* A destination entry with one or more of name, city, description missing.
Malformed(item) == item.name = None \/ item.city = None \/ item.description = None

\* The indices of the well-formed entries, in catalog order.
WellFormed(destinations) ==
    SelectSeq(AllIndices(destinations), LAMBDA i : ~Malformed(destinations[i]))

\* What the search that ran returns on the well-formed entries alone, as
\* indices of the whole catalog.
ResultOnWellFormed ==
    LET keep == WellFormed(fn.destinations)
        sub  == [k \in DOMAIN keep |-> fn.destinations[keep[k]]]
        err  == [k \in DOMAIN keep |->
                    IF keep[k] \in DOMAIN fn.scores THEN fn.scores[keep[k]].err ELSE 0]
        order == CASE fn.op = "basic" -> search_destinations(sub, fn.query).order
                   [] fn.op = "enhanced" ->
                        search_destinations_enhanced(sub, fn.query,
                                                     fn.relevance_score, err).order
                   [] OTHER -> fuzzy_search_destinations(sub, fn.query, DefaultCutoff, err)
    IN  [k \in DOMAIN order |-> keep[order[k]]]

\* C22: on a catalog that holds a malformed destination entry nothing
\* raises, and every search returns what it returns for the remaining
\* entries, the malformed entry skipped.
C22_MalformedSkipped ==
    (\E i \in DOMAIN fn.destinations : Malformed(fn.destinations[i])) =>
        /\ ~fn.raised
        /\ fn.phase = "done" => fn.order = ResultOnWellFormed

\* The text of the reply of the request that is over.
ReplyText == req.reply[1].text

\* The templates of _generate_intelligent_fallback_response.
FallbackTemplates == {"fallback_check_later", "fallback_categories", ScopeMessage(ai_mode)}

\* The request was answered with a fallback template.
FromFallbackTemplate ==
    pc = "done" /\ req.outcome = "answered" /\ ReplyText \in FallbackTemplates

\* C23 as stated: a score below 0.1 gives the scope refusal and a score of
\* 0.1 or more never does; a request that falls through to the fallback
\* templates gets the category offer when its score is in [0.1, 0.2).
C23_RelevanceBands_AsStated ==
    pc = "done" =>
        /\ req.rel < very_low_relevance => req.outcome = "rejected"
        /\ ReplyText = ScopeMessage(ai_mode) => req.rel < very_low_relevance
        /\ FromFallbackTemplate /\ req.rel >= very_low_relevance
             /\ req.rel < medium_relevance => ReplyText = "fallback_categories"

\* C23 amended: a score below 0.1 is refused with the scope message at the
\* relevance check and a score of 0.1 or more proceeds; a request that falls
\* through to the fallback templates has a score of at least 0.1 and gets
\* the scope message when the score is at most 0.2, the category offer when
\* it is above 0.2 and at most 0.5, and the check-later message above 0.5.
C23_RelevanceBands ==
    pc = "done" =>
        /\ req.rel < very_low_relevance => req.outcome = "rejected"
        /\ req.outcome = "rejected" /\ ReplyText = ScopeMessage(ai_mode)
             => req.rel < very_low_relevance
        /\ FromFallbackTemplate =>
             /\ req.rel >= very_low_relevance
             /\ ReplyText = ScopeMessage(ai_mode) <=> req.rel <= medium_relevance
             /\ ReplyText = "fallback_categories"
                  <=> req.rel > medium_relevance /\ req.rel <= high_relevance
             /\ ReplyText = "fallback_check_later" <=> req.rel > high_relevance

\* A request with score 0.2 fell through to the templates and got the scope
\* message.
C23_Witness ==
    /\ FromFallbackTemplate
    /\ req.rel = medium_relevance
    /\ ReplyText = ScopeMessage(ai_mode)

\* The window is the last turns appended, at most ten.
WindowIsRecent ==
    /\ Len(fn.conversation_context) = Min2(Len(fn.log), context_limit)
    /\ fn.conversation_context =
          SubSeq(fn.log, Len(fn.log) - Len(fn.conversation_context) + 1, Len(fn.log))

\* A step leaves the window alone, or appends one turn at the back and drops
\* k turns from the front, k > 0 only to keep the window at its limit.
WindowStep ==
    \/ fn'.conversation_context = fn.conversation_context
    \/ \E k \in 0..Len(fn.conversation_context) :
          /\ Len(fn'.conversation_context) = Len(fn.conversation_context) - k + 1
          /\ SubSeq(fn'.conversation_context, 1, Len(fn.conversation_context) - k)
               = SubSeq(fn.conversation_context, k + 1, Len(fn.conversation_context))
          /\ k > 0 => Len(fn'.conversation_context) = context_limit

\* C24: after any sequence of requests the conversation-context window
\* holds at most 10 turns, they are the turns appended last in the order
\* they arrived, and a turn leaves the window only at its front, when a new
\* turn is appended to a full window.
C24_RecentWindow ==
    /\ [](Len(fn.conversation_context) <= context_limit /\ WindowIsRecent)
    /\ [][WindowStep]_vars

\* Twelve turns were appended and the window holds the last ten.
C24_Witness ==
    /\ Len(fn.log) = context_limit + 2
    /\ Len(fn.conversation_context) = context_limit
    /\ fn.conversation_context[1] = fn.log[3]

\* The fixed messages a failure of SimpleChatbot may answer with.
ApprovedTemplates == {WELCOME_MESSAGE, NotReadyMessage, CannotAnswerMessage}

\* C25: on a failure path (no generation client, an exception or timeout of
\* the generation call, a completion without content) the text delivered is
\* one of the fixed message templates and holds no text of the exception.
C25_FailureTemplates ==
    (fn.pc = "idle" /\ fn.failure # "none") =>
        /\ fn.reply[1] \in ApprovedTemplates
        /\ "exception_text" \notin Range(fn.reply[1])

\* Both distances of the pair (a, b) have been computed.
BothDistances == fn.done = {"bounded", "unbounded"}

\* C26: the bounded distance is at most the bound exactly when the true
\* distance is, and then it is the true distance; otherwise it is some
\* value above the bound.
C26_BoundedRefinesTrue ==
    BothDistances =>
        /\ fn.ab <= fn.max_distance <=> fn.u_ab <= fn.max_distance
        /\ fn.ab <= fn.max_distance => fn.ab = fn.u_ab
        /\ fn.u_ab > fn.max_distance => fn.ab > fn.max_distance
        /\ fn.ba <= fn.max_distance <=> fn.u_ba <= fn.max_distance
        /\ fn.ba <= fn.max_distance => fn.ba = fn.u_ba

\* Two strings of equal length at a distance of 2 under the bound 2: the
\* rows run to the end.
C26_Witness ==
    /\ BothDistances
    /\ fn.max_distance = 2
    /\ fn.u_ab = 2 /\ fn.ab = 2
    /\ Len(fn.a) = Len(fn.b)

\* C27: a put removes an entry only when the new key would raise the count
\* above max_size; a put of a key that is already cached into a cache of
\* max_size entries replaces that key's payload and timestamp and removes no
\* other entry.
C27_RePutEvictsNothing ==
    [][ LET k == cache_op'.key IN
        cache_op'.kind = "put" =>
          /\ (DictKeys(response_cache) \ DictKeys(response_cache') # {}) =>
                /\ ~DictHas(response_cache, k)
                /\ DictLen(response_cache) >= cache_max_size
          /\ DictHas(response_cache, k) /\ DictLen(response_cache) = cache_max_size =>
                /\ DictKeys(response_cache') = DictKeys(response_cache)
                /\ DictKeys(cache_timestamps') = DictKeys(cache_timestamps)
                /\ KeptEntries(response_cache, response_cache', {k})
                /\ KeptEntries(cache_timestamps, cache_timestamps', {k})
                /\ DictGet(cache_timestamps', k) = now
      ]_vars

\* The successful results _parse_ai_response_enhanced can hand to build_reply.
SuccessfulResults ==
    {parse_ai_response_enhanced(out)[1] :
        out \in {o \in GenOutcomes : parse_ai_response_enhanced(o) # None}}

\* The answers build_reply takes from the local destination index.
LocalAnswers == {"province_guides", "found_places", "did_you_mean"}

\* The request ended without a generated or replayed answer.
EndedWithoutGeneration ==
    /\ pc = "done"
    /\ \/ req.outcome = "rejected"
       \/ FromFallbackTemplate
       \/ req.outcome = "answered" /\ ReplyText \in LocalAnswers

\* C28: the cache is written only after a generation call that reported
\* success: a request that ends in a validation rejection, a scope refusal, a
\* local-index answer or a fallback template has stored nothing, and every
\* cached payload is the text, html and confidence of a successful
\* generation result.
C28_CachedOnlyOnSuccess ==
    /\ EndedWithoutGeneration => req.stores = 0
    /\ \A i \in 1..Len(response_cache) : response_cache[i][2] \in SuccessfulResults

\* The call just made by user_id replayed, as a step.
Replayed == fn'.call.kind = "replay"

\* The latest finalization mark of the caller matches the call's key and lies
\* within the window.
MarkMatches(mark) ==
    /\ mark # None
    /\ fn'.call.key # <<>>
    /\ mark[1].query = fn'.call.key
    /\ fn.clock - mark[1].timestamp <= DUPLICATE_WINDOW_SECONDS

\* A replay hands back a copy of the caller's stored payload marked as a
\* duplicate, runs neither the search nor the generation, and leaves
\* _recent_requests as it was.
ReplayEffect ==
    LET u == fn'.call.user_id
        ret == fn'.call.ret[1]
    IN  /\ fn.recent[u] # None
        /\ ret = [fn.recent[u][1].result EXCEPT
                      !.duplicate = TRUE,
                      !.source = Append(fn.recent[u][1].result.source, "_cached")]
        /\ ret.response[1] = u
        /\ ~fn'.call.searched /\ ~fn'.call.generated
        /\ fn'.recent = fn.recent

\* C29 as stated: get_response replays exactly when the same user's most
\* recently finalized request had the same non-empty normalized key and was
\* finalized at most DUPLICATE_WINDOW_SECONDS earlier.
C29_ReplayOfLatestRequest_AsStated ==
    [][fn'.n = fn.n + 1 =>
         /\ Replayed <=> MarkMatches(fn.finalized[fn'.call.user_id])
         /\ Replayed => ReplayEffect]_vars

\* C29 amended: get_response replays exactly when the same user's most
\* recently finalized request among those with a non-empty normalized key
\* had the same key and was finalized at most DUPLICATE_WINDOW_SECONDS
\* earlier; a replay returns that user's stored payload marked duplicate,
\* invokes neither search nor generation, never returns a payload computed
\* for another user, and leaves the stored entry and its timestamp unchanged.
C29_ReplayOfLatestKeyedRequest ==
    [][fn'.n = fn.n + 1 =>
         /\ Replayed <=> MarkMatches(fn.keyed[fn'.call.user_id])
         /\ Replayed => ReplayEffect]_vars

\* A user's request was replayed at the edge of the window although the same
\* user sent an empty message in between.
C29_Witness ==
    LET u == fn.call.user_id IN
    /\ fn.call.kind = "replay"
    /\ fn.call.at - fn.recent[u][1].timestamp = DUPLICATE_WINDOW_SECONDS
    /\ fn.finalized[u][1].query = <<>>
    /\ fn.call.ret[1].response[1] = u

\* The stored messages are in the order of their adds.
InsertionOrder ==
    \A i \in 1..Len(fn.messages) - 1 : fn.messages[i].id < fn.messages[i + 1].id

\* What one add does to the store.
AddStep ==
    fn'.op.kind = "add" /\ fn'.adds = fn.adds + 1 =>
        IF fn'.op.raised
        THEN fn'.messages = fn.messages
        ELSE IF Len(fn.messages) = fn.limit
        THEN /\ fn'.messages = Append(Tail(fn.messages), fn'.op.ret[1])
             /\ Len(fn'.messages) = fn.limit
        ELSE fn'.messages = Append(fn.messages, fn'.op.ret[1])

\* An add with a blank role or a blank text raises, every other add stores.
AddRaises ==
    fn.op.kind = "add" /\ ~fn.op.raised =>
        /\ fn.op.ret[1].role # <<>> /\ fn.op.ret[1].text # <<>>
        /\ fn.messages # <<>> /\ fn.messages[Len(fn.messages)] = fn.op.ret[1]

\* C30: after any sequence of add and clear, MessageStore holds at most limit
\* messages in insertion order; an add on a full store drops exactly the
\* oldest message; an add with a blank role or a blank text raises and leaves
\* the store unchanged.
C30_BoundedInsertionOrder ==
    /\ [](Len(fn.messages) <= fn.limit /\ InsertionOrder /\ AddRaises)
    /\ [][AddStep]_vars

\* A full store took one more message and dropped its oldest, and between two
\* of the messages it holds an add raised.
C30_Witness ==
    /\ fn.op.kind = "add" /\ ~fn.op.raised
    /\ Len(fn.messages) = fn.limit /\ fn.limit > 1
    /\ fn.messages[1].id > 1
    /\ \E i \in 1..Len(fn.messages) - 1 : fn.messages[i + 1].id > fn.messages[i].id + 1

=============================================================================
